---- MODULE Spec2Model ----
(***************************************************************************)
(* Verification model of the DBSBM service supervisors.                    *)
(*                                                                         *)
(*   master_service_manager.py      MasterServiceManager  (Spec)           *)
(*   integrated_service_manager.py  ServiceManager        (SpecI)          *)
(*                                                                         *)
(* The master manager runs a main thread (run, the signal handler and the  *)
(* finally block of run) and a daemon monitor thread (monitor_services).   *)
(* A thread takes one step per blocking call of the code: the 5 s startup  *)
(* sleep of start_service, the 15 s wait of stop_service and the sleeps of *)
(* the monitor loop are the points where the other thread and the child    *)
(* processes can act.  The integrated manager runs the Tk thread (one      *)
(* button handler at a time; the handlers of the All buttons are sequences *)
(* of the per-service handlers) and, for every start_service call, an      *)
(* output thread and a startup check thread.                               *)
(*                                                                         *)
(* Specifications of the master manager: Spec (one run ended by a signal), *)
(* SpecSched (the run over a calendar window), SpecLive and SpecRun (the   *)
(* run not signalled, with the monitor thread scheduled fairly, with and   *)
(* without exceptions in the ticks), SpecOps (the operations called one    *)
(* after the other by a single caller), SpecBackoff (the restart policy),  *)
(* SpecMaint (the run on the day of the monthly restart), SpecCli (the     *)
(* stop and restart commands run next to a supervisor), SpecCal (the       *)
(* first-Monday computation).                                              *)
(* Specification of the integrated manager with its status file:          *)
(* SpecSave (the Save Status button and launches of the manager).          *)
(***************************************************************************)
EXTENDS Integers, Sequences, FiniteSets, TLC

\* ------------------------------------------------------------------ bounds
NumServices == 2      \* services supervised in the model (the code has 3)
MaxSpawn    == 3      \* child processes the master manager spawns in one run
MaxGuiSpawn == 2      \* child processes the integrated manager spawns
MaxDay      == 40     \* last day of the calendar window of SpecSched
MaxCount    == 7      \* largest failure count given to the restart policy
NumGuiServices == 1   \* services of the integrated manager (the code has 3)
MaxCalls    == 3      \* operations a caller of the service operations makes
MaxCalDay   == 305    \* last day given to the first-Monday computation
MaxLaunch   == 2      \* launches of the integrated manager (SpecSave)

\* ------------------------------------------------------- program constants
FAILURE_THRESHOLD == 3
BACKOFF_BASE      == 2
LONG_WAIT         == 60
EPOCH_YEAR        == 2024   \* day 0 of the model's calendar is Monday 2024-01-01

Services == 1..NumServices
GuiServices == 1..NumGuiServices
None     == 0
Never    == "Never"      \* last_health_check of a service never checked
Checked  == "Checked"    \* datetime.now().isoformat() of a health check
NoDate   == -1
Threads  == {"main", "monitor"}

VARIABLES
    \* MasterServiceManager.services[...] fields
    status, process, pid, restart_count, consecutive_failures,
    \* the field last_health_check: Never, or Checked for the timestamp the
    \* latest check_service_health call has put there
    last_health_check,
    \* MasterServiceManager fields and files
    running, pid_file, last_monthly_restart,
    \* operating system: the child processes of each service, the scripts
    procs, script_exists, today,
    \* threads of the master manager
    pc, idx, local_process, wait_time, do_start,
    \* history: delays the monitor loop slept before restart decisions,
    \* the services running when the shutdown signal arrived, the days on
    \* which restart_all_services was triggered by the scheduler, whether
    \* check_monthly_restart has been called again on the day of a cycle
    delay_log, at_shutdown, cycle_log, rechecked,
    \* history: the monitor loop has caught an exception at its loop boundary
    caught,
    \* history: the schedule.run_pending() call of the current tick has called
    \* check_monthly_restart (until the first health check of the tick)
    check_ran,
    \* inputs and outputs of the restart policy taken alone (SpecBackoff)
    bo_n, bo_m, bo_out,
    \* output of the first-Monday computations taken alone (SpecCal); their
    \* input is today
    cal_out,
    \* history: per service the number of start_service calls that returned
    \* True
    start_ok,
    \* the status file written by update_status, with what the monitor loop
    \* had done in its tick when the file was written (last_write)
    status_file, last_write,
    \* history of the current tick of the monitor loop: the services whose
    \* health was checked; per service whether a restart was decided in the
    \* tick ("decided") and its start_service call has returned ("done")
    tick_checked, tick_restart,
    \* a caller of the service operations (SpecOps): the last operation
    \* called (op) on service svc, the value it returned (val, "none" while
    \* it runs), the value its stop_service call returned (stop), how many
    \* times in a row it has been called on svc (rep); the operations called
    \* so far
    ret, calls,
    \* sys.argv[1] of the process (main)
    command,
    \* ServiceManager.services[...] fields of the integrated manager
    i_status, i_process, output_queue, auto_restart,
    \* threads of the integrated manager: the Tk main thread; per service
    \* the numbers of output threads in their read loop and in the sleep
    \* before an auto-restart (out_pc), and the number of startup check
    \* threads in their sleep (chk_pc)
    gui_pc, gui_idx, gui_proc, out_pc, chk_pc,
    \* history: per service of the integrated manager, the last call the user
    \* made for it was a stop_service call that found it running and has
    \* returned True
    user_stopped,
    \* operating system under the integrated manager
    i_procs, command_exists,
    \* integrated_service_status.json; history: the auto_restart flags at the
    \* last save_status call that wrote the file; the number of ServiceManager
    \* processes launched so far
    i_status_file, saved_auto_restart, launches

recVars == <<status, process, pid, restart_count, consecutive_failures,
             last_health_check>>
supVars == <<running, pid_file, last_monthly_restart>>
osVars  == <<procs, script_exists, today>>
thrVars == <<pc, idx, local_process, wait_time, do_start>>
hstVars == <<delay_log, at_shutdown, cycle_log, rechecked, caught, check_ran>>
obsVars == <<status_file, last_write, tick_checked, tick_restart>>
apiVars == <<ret, calls, command>>
boVars  == <<bo_n, bo_m, bo_out, cal_out>>
iRecVars == <<i_status, i_process, output_queue, auto_restart>>
iThrVars == <<gui_pc, gui_idx, gui_proc, out_pc, chk_pc, user_stopped>>
iOsVars == <<i_procs, command_exists>>
savVars == <<i_status_file, saved_auto_restart, launches>>
iVars   == <<iRecVars, iThrVars, iOsVars, savVars>>
vars    == <<recVars, supVars, osVars, thrVars, hstVars, start_ok, obsVars,
             apiVars, boVars, iVars>>
\* what the master manager's steps leave alone
notMaster == <<boVars, iVars, apiVars>>
\* what the integrated manager's service operations and threads leave alone
notIntegrated == <<recVars, supVars, osVars, thrVars, hstVars, start_ok,
                   obsVars, apiVars, boVars, savVars>>
\* what save_status and a launch of the integrated manager leave alone
notSaved == <<recVars, supVars, osVars, thrVars, hstVars, start_ok,
              obsVars, apiVars, boVars>>

\* -------------------------------------------------------------- calendar
\* datetime: day n of the model is EPOCH_YEAR-01-01 plus n days
IsLeap(y) == (y % 4 = 0 /\ y % 100 # 0) \/ y % 400 = 0

DaysInMonth(y, m) ==
    CASE m = 2 -> IF IsLeap(y) THEN 29 ELSE 28
      [] m \in {4, 6, 9, 11} -> 30
      [] OTHER -> 31

RECURSIVE DateFrom(_, _, _)
DateFrom(y, m, n) ==
    IF n < DaysInMonth(y, m)
    THEN [year |-> y, month |-> m, day |-> n + 1]
    ELSE IF m = 12 THEN DateFrom(y + 1, 1, n - DaysInMonth(y, m))
                   ELSE DateFrom(y, m + 1, n - DaysInMonth(y, m))

DateOf(n) == DateFrom(EPOCH_YEAR, 1, n)

\* date.weekday(): Monday is 0
weekday(n) == n % 7

\* today.replace(day=1)
first_day(n) == n - (DateOf(n).day - 1)

\* the same without the reduction modulo 7
first_monday_mut(n) == first_day(n) + (7 - weekday(first_day(n)))

\* first_day + timedelta(days=(7 - first_day.weekday()) % 7)
first_monday(n) == first_day(n) + ((7 - weekday(first_day(n))) % 7)

\* status(): (today.replace(day=1) + timedelta(days=32)).replace(day=1)
first_day_next_month(n) == first_day(first_day(n) + 32)

\* status(): the first Monday of the next month
next_first_monday(n) == first_monday(first_day_next_month(n))

\* the condition without the test of last_monthly_restart
monthly_restart_due_mut(n, last) ==
    n = first_monday(n)

\* the condition of check_monthly_restart
monthly_restart_due(n, last) ==
    /\ n = first_monday(n)
    /\ \/ last = NoDate
       \/ DateOf(last).month # DateOf(n).month
       \/ DateOf(last).year # DateOf(n).year

\* --------------------------------------------------------------- helpers
\* psutil.pid_exists(pid) and psutil.Process(pid).is_running()
is_process_running(s, p) == p # None /\ procs[s][p] = "alive"

\* a poll that never sees the exit of the process
poll_is_None_mut(s, p) == TRUE

\* Popen.poll() is None
poll_is_None(s, p) == procs[s][p] = "alive"

\* a child process is referenced by a service record or by the local
\* variable `process` of a start_service call in progress
Referenced(s, p) ==
    \/ process[s] = p
    \/ pid[s] = p
    \/ \E t \in Threads : idx[t] = s /\ local_process[t] = p

\* the process table after the last reference to child p of service s is
\* dropped: the exit code of an exited child can no longer be read
Release(pr, s, p) ==
    IF p = None \/ pr[s][p] \in {"alive", "killed"} THEN pr
    ELSE [pr EXCEPT ![s][p] = "gone"]

\* the number of child processes the master manager has spawned for the
\* services 1..n
RECURSIVE Started(_)
Started(n) == IF n = 0 THEN 0 ELSE Len(procs[n]) + Started(n - 1)

\* the backoff one step further on
wait_time_of_mut(n) == BACKOFF_BASE ^ (n + 1)

\* the exponential backoff branch of monitor_services
wait_time_of(n) == BACKOFF_BASE ^ n

\* the restart decision with the threshold test off by one
RestartDecision_mut(n) ==
    IF n < FAILURE_THRESHOLD
    THEN [wait |-> wait_time_of(n), start |-> TRUE]
    ELSE [wait |-> LONG_WAIT, start |-> FALSE]

\* the restart decision of monitor_services for a died service
RestartDecision(n) ==
    IF n <= FAILURE_THRESHOLD
    THEN [wait |-> wait_time_of(n), start |-> TRUE]
    ELSE [wait |-> LONG_WAIT, start |-> FALSE]

\* no operation has returned to the caller
NoRet == [op |-> "none", svc |-> 0, val |-> "none", stop |-> "none", rep |-> 0]

\* a Python bool as it is shown to the caller
Bool(b) == IF b THEN "True" ELSE "False"

\* the status file before the first update_status of the run
NoFile == [s \in Services |-> [status |-> "none", restart_count |-> 0]]

NoRestart == [s \in Services |-> "no"]

NoWrite == [by |-> "none", checked |-> {}, restart |-> NoRestart,
            failed |-> FALSE]

\* update_status called by thread t: the status and restart_count of every
\* service are written to the status file
update_status(t) ==
    /\ status_file' = [s \in Services |->
                          [status |-> status[s],
                           restart_count |-> restart_count[s]]]
    /\ last_write' = [by |-> t, checked |-> tick_checked,
                      restart |-> tick_restart, failed |-> FALSE]

\* update_status when open() or json.dump raises: the except clause logs
\* the error.  The file is as it was when open() raised, and holds no
\* service when the write failed after open() had truncated it.
update_status_fails(t) ==
    /\ status_file' \in {status_file, NoFile}
    /\ last_write' = [last_write EXCEPT !.failed = TRUE]

\* ----------------------------------------------------------------- Init
\* MasterServiceManager.__init__, the threads apart
InitManager ==
    /\ status = [s \in Services |-> "stopped"]
    /\ process = [s \in Services |-> None]
    /\ pid = [s \in Services |-> None]
    /\ restart_count = [s \in Services |-> 0]
    /\ consecutive_failures = [s \in Services |-> 0]
    /\ last_health_check = [s \in Services |-> Never]
    /\ running = FALSE
    /\ pid_file = FALSE
    /\ last_monthly_restart = NoDate
    /\ idx = [t \in Threads |-> 1]
    /\ local_process = [t \in Threads |-> None]
    /\ wait_time = 0
    /\ do_start = FALSE
    /\ delay_log = [s \in Services |-> <<>>]
    /\ at_shutdown = {}
    /\ cycle_log = <<>>
    /\ rechecked = FALSE
    /\ caught = FALSE
    /\ check_ran = FALSE
    /\ start_ok = [s \in Services |-> 0]
    /\ status_file = NoFile
    /\ last_write = NoWrite
    /\ tick_checked = {}
    /\ tick_restart = NoRestart
    /\ ret = NoRet
    /\ calls = 0

\* no child process of a service exists
NoChildren == procs = [s \in Services |-> <<>>]

\* the manager constructed and run() about to be called
InitMaster ==
    /\ InitManager
    /\ NoChildren
    /\ command = "start"
    /\ pc = [t \in Threads |-> IF t = "main" THEN "run" ELSE "off"]

InitBackoffIdle ==
    /\ bo_n = 0
    /\ bo_m = 0
    /\ bo_out = <<>>
    /\ cal_out = <<>>

\* json.dump and json.load on a Python bool
json_dump_bool(b) == IF b THEN "true" ELSE "false"

json_load_bool(j) == j = "true"

\* the services entry of a status file that holds no JSON document
NoEntries == [s \in GuiServices |->
                 [status |-> "Stopped", pid |-> None, auto_restart |-> "true"]]

\* integrated_service_status.json does not exist
NoStatusFile == [kind |-> "absent", services |-> NoEntries]

\* the file after a json.dump that has raised: opened for writing, and
\* not a JSON document
BrokenStatusFile == [kind |-> "broken", services |-> NoEntries]

\* ServiceManager.__init__
InitIntegrated ==
    /\ i_status = [s \in GuiServices |-> "Stopped"]
    /\ i_process = [s \in GuiServices |-> None]
    /\ output_queue = [s \in GuiServices |-> FALSE]
    /\ auto_restart = [s \in GuiServices |-> TRUE]
    /\ gui_pc = "idle"
    /\ gui_idx = 1
    /\ gui_proc = None
    /\ out_pc = [s \in GuiServices |-> [loop |-> 0, restart_sleep |-> 0]]
    /\ chk_pc = [s \in GuiServices |-> 0]
    /\ user_stopped = [s \in GuiServices |-> FALSE]
    /\ i_status_file = NoStatusFile
    /\ saved_auto_restart = [s \in GuiServices |-> TRUE]
    /\ launches = 1
    /\ i_procs = [s \in GuiServices |-> <<>>]
    /\ command_exists = [s \in GuiServices |-> TRUE]

\* the master manager started on an ordinary day (Tuesday 2024-01-02)
Init ==
    /\ InitMaster
    /\ script_exists \in [Services -> BOOLEAN]
    /\ today = 1
    /\ InitBackoffIdle
    /\ InitIntegrated

\* ------------------------------------------- start_service / stop_service
\* start_service not counting a missing script as a failure
StartBegin_mut(t, s) ==
    IF pid[s] # None /\ is_process_running(s, pid[s])
    THEN /\ status' = [status EXCEPT ![s] = "running"]
         /\ consecutive_failures' = [consecutive_failures EXCEPT ![s] = 0]
         /\ start_ok' = [start_ok EXCEPT ![s] = @ + 1]
         /\ UNCHANGED <<process, pid, restart_count, last_health_check, procs,
                        local_process>>
    ELSE IF ~script_exists[s]
    THEN /\ status' = [status EXCEPT ![s] = "error"]
         /\ UNCHANGED <<process, pid, restart_count, consecutive_failures,
                        last_health_check, procs, local_process, start_ok>>
    ELSE /\ Started(NumServices) < MaxSpawn
         /\ procs' = [procs EXCEPT ![s] = Append(@, "alive")]
         /\ local_process' = [local_process EXCEPT ![t] = Len(procs[s]) + 1]
         /\ UNCHANGED <<recVars, start_ok>>

\* start_service up to the startup sleep: the already-running check, the
\* script check and Popen.  local_process'[t] # None iff a child was spawned.
StartBegin(t, s) ==
    IF pid[s] # None /\ is_process_running(s, pid[s])
    THEN /\ status' = [status EXCEPT ![s] = "running"]
         /\ consecutive_failures' = [consecutive_failures EXCEPT ![s] = 0]
         /\ start_ok' = [start_ok EXCEPT ![s] = @ + 1]
         /\ UNCHANGED <<process, pid, restart_count, last_health_check, procs,
                        local_process>>
    ELSE IF ~script_exists[s]
    THEN /\ status' = [status EXCEPT ![s] = "error"]
         /\ consecutive_failures' = [consecutive_failures EXCEPT ![s] = @ + 1]
         /\ UNCHANGED <<process, pid, restart_count, last_health_check, procs,
                        local_process, start_ok>>
    ELSE /\ Started(NumServices) < MaxSpawn
         /\ procs' = [procs EXCEPT ![s] = Append(@, "alive")]
         /\ local_process' = [local_process EXCEPT ![t] = Len(procs[s]) + 1]
         /\ UNCHANGED <<recVars, start_ok>>

\* a successful start keeping the failure count
StartEnd_mut(t, s) ==
    LET p == local_process[t] IN
    /\ p # None
    /\ IF poll_is_None(s, p)
       THEN /\ process' = [process EXCEPT ![s] = p]
            /\ pid' = [pid EXCEPT ![s] = p]
            /\ status' = [status EXCEPT ![s] = "running"]
            /\ restart_count' = [restart_count EXCEPT ![s] = @ + 1]
            /\ start_ok' = [start_ok EXCEPT ![s] = @ + 1]
            /\ procs' = Release(procs, s, process[s])
            /\ UNCHANGED <<consecutive_failures, last_health_check>>
       ELSE /\ status' = [status EXCEPT ![s] = "error"]
            /\ consecutive_failures' = [consecutive_failures EXCEPT ![s] = @ + 1]
            /\ procs' = Release(procs, s, p)
            /\ UNCHANGED <<process, pid, restart_count, last_health_check,
                           start_ok>>
    /\ local_process' = [local_process EXCEPT ![t] = None]

\* start_service after the startup sleep: poll the child and record it
StartEnd(t, s) ==
    LET p == local_process[t] IN
    /\ p # None
    /\ IF poll_is_None(s, p)
       THEN /\ process' = [process EXCEPT ![s] = p]
            /\ pid' = [pid EXCEPT ![s] = p]
            /\ status' = [status EXCEPT ![s] = "running"]
            /\ restart_count' = [restart_count EXCEPT ![s] = @ + 1]
            /\ consecutive_failures' = [consecutive_failures EXCEPT ![s] = 0]
            /\ start_ok' = [start_ok EXCEPT ![s] = @ + 1]
            /\ procs' = Release(procs, s, process[s])
            /\ UNCHANGED last_health_check
       ELSE /\ status' = [status EXCEPT ![s] = "error"]
            /\ consecutive_failures' = [consecutive_failures EXCEPT ![s] = @ + 1]
            /\ procs' = Release(procs, s, p)
            /\ UNCHANGED <<process, pid, restart_count, last_health_check,
                           start_ok>>
    /\ local_process' = [local_process EXCEPT ![t] = None]

\* the test of stop_service: a handle whose process has not exited
StopIsRunning(s) == process[s] # None /\ poll_is_None(s, process[s])

\* stop_service reporting a service that is not running as an error
StopBegin_mut(t, s) ==
    IF StopIsRunning(s)
    THEN /\ local_process' = [local_process EXCEPT ![t] = process[s]]
         /\ UNCHANGED <<recVars, procs>>
    ELSE /\ status' = [status EXCEPT ![s] = "error"]
         /\ pid' = [pid EXCEPT ![s] = None]
         /\ UNCHANGED <<process, restart_count, consecutive_failures,
                        last_health_check, procs, local_process>>

\* stop_service up to the wait: the graceful signal is sent and thread t
\* waits on the child, or the not-running branch is taken
StopBegin(t, s) ==
    IF StopIsRunning(s)
    THEN /\ local_process' = [local_process EXCEPT ![t] = process[s]]
         /\ UNCHANGED <<recVars, procs>>
    ELSE /\ status' = [status EXCEPT ![s] = "stopped"]
         /\ pid' = [pid EXCEPT ![s] = None]
         /\ UNCHANGED <<process, restart_count, consecutive_failures,
                        last_health_check, procs, local_process>>

\* stop_service going on after the timeout without the forced kill
StopEnd_mut(t, s) ==
    LET p == local_process[t] IN
    /\ p # None
    /\ IF poll_is_None(s, p) /\ process[s] = None
       THEN UNCHANGED <<recVars, procs>>
       ELSE /\ procs' = IF poll_is_None(s, p)
                        THEN procs
                        ELSE Release(Release(procs, s, p), s, process[s])
            /\ process' = [process EXCEPT ![s] = None]
            /\ pid' = [pid EXCEPT ![s] = None]
            /\ status' = [status EXCEPT ![s] = "stopped"]
            /\ UNCHANGED <<restart_count, consecutive_failures,
                           last_health_check>>
    /\ local_process' = [local_process EXCEPT ![t] = None]

\* stop_service from the return of wait(timeout=15) on child p.  After a
\* timeout service["process"].kill() is called on the handle the record
\* holds now (a cleared handle raises, which is caught).  Then the record
\* is cleared whatever handle it holds: a child recorded meanwhile by the
\* other thread stays alive.
StopEnd(t, s) ==
    LET p == local_process[t] IN
    /\ p # None
    /\ IF poll_is_None(s, p) /\ process[s] = None
       THEN UNCHANGED <<recVars, procs>>
       ELSE /\ procs' = IF poll_is_None(s, p)
                        THEN [procs EXCEPT ![s][process[s]] = "killed"]
                        ELSE Release(Release(procs, s, p), s, process[s])
            /\ process' = [process EXCEPT ![s] = None]
            /\ pid' = [pid EXCEPT ![s] = None]
            /\ status' = [status EXCEPT ![s] = "stopped"]
            /\ UNCHANGED <<restart_count, consecutive_failures,
                           last_health_check>>
    /\ local_process' = [local_process EXCEPT ![t] = None]

\* ------------------------------------------------- loops over the services
Goto(t, p, i) ==
    /\ pc' = [pc EXCEPT ![t] = p]
    /\ idx' = [idx EXCEPT ![t] = i]

\* a thread is alive: the interpreter has not exited (the monitor thread is
\* a daemon thread)
Live(t) == pc["main"] # "done"

\* start_all_services in thread t at position ph: one start_service call
StartAllNext(t, ph) ==
    /\ Live(t)
    /\ pc[t] = ph
    /\ idx[t] <= NumServices
    /\ StartBegin(t, idx[t])
    /\ IF local_process'[t] # None
       THEN Goto(t, ph \o "_wait", idx[t])
       ELSE Goto(t, ph, idx[t] + 1)
    /\ UNCHANGED <<supVars, script_exists, today, wait_time, do_start,
                   hstVars, notMaster>>
    /\ UNCHANGED <<obsVars>>

StartAllWait(t, ph) ==
    /\ Live(t)
    /\ pc[t] = ph \o "_wait"
    /\ StartEnd(t, idx[t])
    /\ Goto(t, ph, idx[t] + 1)
    /\ UNCHANGED <<supVars, script_exists, today, wait_time, do_start,
                   hstVars, notMaster>>
    /\ UNCHANGED <<obsVars>>

\* stop_all_services in thread t at position ph: one stop_service call
StopAllNext(t, ph) ==
    /\ Live(t)
    /\ pc[t] = ph
    /\ idx[t] <= NumServices
    /\ StopBegin(t, idx[t])
    /\ IF StopIsRunning(idx[t])
       THEN Goto(t, ph \o "_wait", idx[t])
       ELSE Goto(t, ph, idx[t] + 1)
    /\ UNCHANGED <<supVars, script_exists, today, wait_time, do_start,
                   hstVars, notMaster>>
    /\ UNCHANGED <<start_ok, obsVars>>

StopAllWait(t, ph) ==
    /\ Live(t)
    /\ pc[t] = ph \o "_wait"
    /\ StopEnd(t, idx[t])
    /\ Goto(t, ph, idx[t] + 1)
    /\ UNCHANGED <<supVars, script_exists, today, wait_time, do_start,
                   hstVars, notMaster>>
    /\ UNCHANGED <<start_ok, obsVars>>

\* ------------------------------------------------------------ main thread
\* run: signal handlers, write_pid_file, running = True
MainRun ==
    /\ pc["main"] = "run"
    /\ pid_file' = TRUE
    /\ running' = TRUE
    /\ Goto("main", "start_all", 1)
    /\ UNCHANGED <<recVars, last_monthly_restart, osVars, local_process,
                   wait_time, do_start, hstVars, notMaster>>
    /\ UNCHANGED <<start_ok, obsVars>>

\* start_all_services called by run
MainStartAllNext == StartAllNext("main", "start_all")

MainStartAllWait == StartAllWait("main", "start_all")

\* end of start_all_services; run starts the monitor thread and idles
MainStartMonitor ==
    /\ pc["main"] = "start_all"
    /\ idx["main"] > NumServices
    /\ pc' = [pc EXCEPT !["main"] = "idle", !["monitor"] = "top"]
    /\ UNCHANGED <<recVars, supVars, osVars, idx, local_process, wait_time,
                   do_start, hstVars, notMaster>>
    /\ update_status("main")
    /\ UNCHANGED <<start_ok, tick_checked, tick_restart>>

\* SIGINT / SIGTERM delivered to the main thread: signal_handler starts.
\* The interrupted frame is unwound by sys.exit at the end of the handler.
SignalHandler ==
    /\ pc["main"] \in {"start_all", "start_all_wait", "idle"}
    /\ running' = FALSE
    /\ Goto("main", "sig_stop", 1)
    /\ local_process' = [local_process EXCEPT !["main"] = None]
    /\ procs' = Release(procs, idx["main"], local_process["main"])
    /\ at_shutdown' = {s \in Services :
                         status[s] = "running" /\ StopIsRunning(s)}
    /\ UNCHANGED <<recVars, pid_file, last_monthly_restart, script_exists,
                   today, wait_time, do_start, delay_log, cycle_log, rechecked,
                   caught, check_ran, notMaster>>
    /\ UNCHANGED <<start_ok, obsVars>>

\* stop_all_services called by signal_handler
HandlerStopNext == StopAllNext("main", "sig_stop")

HandlerStopWait == StopAllWait("main", "sig_stop")

\* signal_handler after stop_all_services: remove_pid_file, sys.exit(0);
\* SystemExit unwinds run into its finally block
HandlerExit ==
    /\ pc["main"] = "sig_stop"
    /\ idx["main"] > NumServices
    /\ pid_file' = FALSE
    /\ Goto("main", "fin_stop", 1)
    /\ UNCHANGED <<recVars, running, last_monthly_restart, osVars,
                   local_process, wait_time, do_start, hstVars, notMaster>>
    /\ update_status("main")
    /\ UNCHANGED <<start_ok, tick_checked, tick_restart>>

\* an exception ends the body of run: a KeyboardInterrupt before the signal
\* handlers are installed, or an error of Thread.start.  The except clause
\* logs it and the finally block runs, with self.running left as it is.
MainRaise ==
    /\ \/ pc["main"] = "run"
       \/ pc["main"] = "start_all" /\ idx["main"] > NumServices
    /\ Goto("main", "fin_stop", 1)
    /\ UNCHANGED <<recVars, supVars, osVars, local_process, wait_time,
                   do_start, hstVars, notMaster>>
    /\ UNCHANGED <<start_ok, obsVars>>

\* stop_all_services called by the finally block of run
FinallyStopNext == StopAllNext("main", "fin_stop")

FinallyStopWait == StopAllWait("main", "fin_stop")

\* the finally block of run without remove_pid_file
RunFinally_mut ==
    /\ pc["main"] = "fin_stop"
    /\ idx["main"] > NumServices
    /\ Goto("main", "done", 1)
    /\ UNCHANGED <<recVars, running, pid_file, last_monthly_restart, osVars,
                   local_process, wait_time, do_start, hstVars, notMaster>>
    /\ update_status("main")
    /\ UNCHANGED <<start_ok, tick_checked, tick_restart>>

\* finally block of run after stop_all_services: remove_pid_file; the
\* interpreter exits and the daemon monitor thread ends with it
RunFinally ==
    /\ pc["main"] = "fin_stop"
    /\ idx["main"] > NumServices
    /\ pid_file' = FALSE
    /\ Goto("main", "done", 1)
    /\ UNCHANGED <<recVars, running, last_monthly_restart, osVars,
                   local_process, wait_time, do_start, hstVars, notMaster>>
    /\ update_status("main")
    /\ UNCHANGED <<start_ok, tick_checked, tick_restart>>

\* --------------------------------------------------------- monitor thread
\* while self.running:
MonitorTop ==
    /\ Live("monitor")
    /\ pc["monitor"] = "top"
    /\ Goto("monitor", IF running THEN "pending" ELSE "exit", 1)
    /\ UNCHANGED <<recVars, supVars, osVars, local_process, wait_time,
                   do_start, hstVars, notMaster>>
    /\ tick_checked' = {}
    /\ tick_restart' = NoRestart
    /\ UNCHANGED <<start_ok, status_file, last_write>>

\* check_monthly_restart recording the month without running the cycle
MonitorRunPending_mut ==
    /\ Live("monitor")
    /\ pc["monitor"] = "pending"
    /\ \E called \in BOOLEAN :
         /\ check_ran' = called
         /\ IF called /\ monthly_restart_due(today, last_monthly_restart)
            THEN /\ last_monthly_restart' = today
                 /\ cycle_log' = Append(cycle_log, today)
                 /\ Goto("monitor", "health", 1)
                 /\ UNCHANGED rechecked
            ELSE /\ Goto("monitor", "health", 1)
                 /\ rechecked' = (rechecked \/
                                    (called /\ last_monthly_restart = today))
                 /\ UNCHANGED <<last_monthly_restart, cycle_log>>
    /\ UNCHANGED <<recVars, running, pid_file, osVars, local_process,
                   wait_time, do_start, delay_log, at_shutdown, caught,
                   notMaster>>
    /\ UNCHANGED <<start_ok, obsVars>>

\* schedule.run_pending(): the library calls check_monthly_restart when it
\* finds the job due, or calls nothing.  check_monthly_restart sets
\* last_monthly_restart and enters restart_all_services when its own
\* condition holds.
MonitorRunPending ==
    /\ Live("monitor")
    /\ pc["monitor"] = "pending"
    /\ \E called \in BOOLEAN :
         /\ check_ran' = called
         /\ IF called /\ monthly_restart_due(today, last_monthly_restart)
            THEN /\ last_monthly_restart' = today
                 /\ cycle_log' = Append(cycle_log, today)
                 /\ Goto("monitor", "cyc_stop", 1)
                 /\ UNCHANGED rechecked
            ELSE /\ Goto("monitor", "health", 1)
                 /\ rechecked' = (rechecked \/
                                    (called /\ last_monthly_restart = today))
                 /\ UNCHANGED <<last_monthly_restart, cycle_log>>
    /\ UNCHANGED <<recVars, running, pid_file, osVars, local_process,
                   wait_time, do_start, delay_log, at_shutdown, caught,
                   notMaster>>
    /\ UNCHANGED <<start_ok, obsVars>>

\* restart_all_services: stop_all_services
CycleStopNext == StopAllNext("monitor", "cyc_stop")

CycleStopWait == StopAllWait("monitor", "cyc_stop")

\* restart_all_services: time.sleep(5) between the two passes
CyclePause ==
    /\ Live("monitor")
    /\ pc["monitor"] = "cyc_stop"
    /\ idx["monitor"] > NumServices
    /\ Goto("monitor", "cyc_start", 1)
    /\ UNCHANGED <<recVars, supVars, osVars, local_process, wait_time,
                   do_start, hstVars, notMaster>>
    /\ update_status("monitor")
    /\ UNCHANGED <<start_ok, tick_checked, tick_restart>>

\* restart_all_services: start_all_services
CycleStartNext == StartAllNext("monitor", "cyc_start")

CycleStartWait == StartAllWait("monitor", "cyc_start")

CycleDone ==
    /\ Live("monitor")
    /\ pc["monitor"] = "cyc_start"
    /\ idx["monitor"] > NumServices
    /\ Goto("monitor", "health", 1)
    /\ UNCHANGED <<recVars, supVars, osVars, local_process, wait_time,
                   do_start, hstVars, notMaster>>
    /\ update_status("monitor")
    /\ UNCHANGED <<start_ok, tick_checked, tick_restart>>

\* the health check leaving the handle of a dead process in the record
check_service_health_mut(s) ==
    /\ last_health_check' = [last_health_check EXCEPT ![s] = Checked]
    /\ IF pid[s] = None
       THEN UNCHANGED <<status, process, pid, restart_count,
                        consecutive_failures, procs>>
       ELSE IF ~is_process_running(s, pid[s])
       THEN /\ status' = [status EXCEPT ![s] = "died"]
            /\ pid' = [pid EXCEPT ![s] = None]
            /\ consecutive_failures' =
                   [consecutive_failures EXCEPT ![s] = @ + 1]
            /\ UNCHANGED <<process, restart_count, procs>>
       ELSE /\ status' = [status EXCEPT ![s] = "running"]
            /\ consecutive_failures' = [consecutive_failures EXCEPT ![s] = 0]
            /\ UNCHANGED <<process, pid, restart_count, procs>>

\* check_service_health
check_service_health(s) ==
    /\ last_health_check' = [last_health_check EXCEPT ![s] = Checked]
    /\ IF pid[s] = None
       THEN UNCHANGED <<status, process, pid, restart_count,
                        consecutive_failures, procs>>
       ELSE IF ~is_process_running(s, pid[s])
       THEN /\ status' = [status EXCEPT ![s] = "died"]
            /\ pid' = [pid EXCEPT ![s] = None]
            /\ process' = [process EXCEPT ![s] = None]
            /\ consecutive_failures' =
                   [consecutive_failures EXCEPT ![s] = @ + 1]
            /\ procs' = Release(procs, s, process[s])
            /\ UNCHANGED restart_count
       ELSE /\ status' = [status EXCEPT ![s] = "running"]
            /\ consecutive_failures' = [consecutive_failures EXCEPT ![s] = 0]
            /\ UNCHANGED <<process, pid, restart_count, procs>>

\* the value check_service_health returns
healthy(s) == pid[s] # None /\ is_process_running(s, pid[s])

\* the test retrying the services in error as well
restart_wanted_mut(st) == st \in {"died", "error"}

\* the test of monitor_services on a service that is not healthy
restart_wanted(st) == st = "died"

\* the for loop going on to the next service with the decided restart left
\* for later
MonitorHealth_mut ==
    /\ Live("monitor")
    /\ pc["monitor"] = "health"
    /\ idx["monitor"] <= NumServices
    /\ LET s == idx["monitor"]
           d == RestartDecision(consecutive_failures'[s])
       IN  /\ check_service_health(s)
           /\ tick_checked' = tick_checked \cup {s}
           /\ IF ~healthy(s) /\ restart_wanted(status'[s])
              THEN /\ wait_time' = d.wait
                   /\ do_start' = d.start
                   /\ delay_log' = [delay_log EXCEPT ![s] = Append(@, d.wait)]
                   /\ tick_restart' = IF d.start
                                      THEN [tick_restart EXCEPT ![s] = "decided"]
                                      ELSE tick_restart
                   /\ Goto("monitor", "health", s + 1)
              ELSE /\ delay_log' = [delay_log EXCEPT ![s] =
                                       IF healthy(s) THEN <<>> ELSE @]
                   /\ Goto("monitor", "health", s + 1)
                   /\ UNCHANGED <<wait_time, do_start, tick_restart>>
    /\ UNCHANGED <<supVars, script_exists, today, local_process, at_shutdown,
                   cycle_log, rechecked, caught, notMaster>>
    /\ check_ran' = FALSE
    /\ UNCHANGED <<start_ok, status_file, last_write>>

\* one iteration of the for loop of monitor_services up to its sleep
MonitorHealth ==
    /\ Live("monitor")
    /\ pc["monitor"] = "health"
    /\ idx["monitor"] <= NumServices
    /\ LET s == idx["monitor"]
           d == RestartDecision(consecutive_failures'[s])
       IN  /\ check_service_health(s)
           /\ tick_checked' = tick_checked \cup {s}
           /\ IF ~healthy(s) /\ restart_wanted(status'[s])
              THEN /\ wait_time' = d.wait
                   /\ do_start' = d.start
                   /\ delay_log' = [delay_log EXCEPT ![s] = Append(@, d.wait)]
                   /\ tick_restart' = IF d.start
                                      THEN [tick_restart EXCEPT ![s] = "decided"]
                                      ELSE tick_restart
                   /\ Goto("monitor", "backoff", s)
              ELSE /\ delay_log' = [delay_log EXCEPT ![s] =
                                       IF healthy(s) THEN <<>> ELSE @]
                   /\ Goto("monitor", "health", s + 1)
                   /\ UNCHANGED <<wait_time, do_start, tick_restart>>
    /\ UNCHANGED <<supVars, script_exists, today, local_process, at_shutdown,
                   cycle_log, rechecked, caught, notMaster>>
    /\ check_ran' = FALSE
    /\ UNCHANGED <<start_ok, status_file, last_write>>

\* after time.sleep(wait_time): start_service, or nothing after the 60 s wait
MonitorRestart ==
    /\ Live("monitor")
    /\ pc["monitor"] = "backoff"
    /\ IF do_start
       THEN /\ StartBegin("monitor", idx["monitor"])
            /\ IF local_process'["monitor"] # None
               THEN /\ Goto("monitor", "restart_wait", idx["monitor"])
                    /\ UNCHANGED tick_restart
               ELSE /\ Goto("monitor", "health", idx["monitor"] + 1)
                    /\ tick_restart' = [tick_restart EXCEPT
                                            ![idx["monitor"]] = "done"]
       ELSE /\ Goto("monitor", "health", idx["monitor"] + 1)
            /\ UNCHANGED <<recVars, procs, local_process, start_ok,
                           tick_restart>>
    /\ UNCHANGED <<supVars, script_exists, today, wait_time, do_start,
                   hstVars, notMaster>>
    /\ UNCHANGED <<status_file, last_write, tick_checked>>

\* a failed restart ending the pass over the services
MonitorRestartWait_mut ==
    /\ Live("monitor")
    /\ pc["monitor"] = "restart_wait"
    /\ StartEnd("monitor", idx["monitor"])
    /\ Goto("monitor", "health",
            IF status'[idx["monitor"]] = "error" THEN NumServices + 1
            ELSE idx["monitor"] + 1)
    /\ UNCHANGED <<supVars, script_exists, today, wait_time, do_start,
                   hstVars, notMaster>>
    /\ tick_restart' = [tick_restart EXCEPT ![idx["monitor"]] = "done"]
    /\ UNCHANGED <<status_file, last_write, tick_checked>>

\* start_service called by the monitor loop, after the startup sleep
MonitorRestartWait ==
    /\ Live("monitor")
    /\ pc["monitor"] = "restart_wait"
    /\ StartEnd("monitor", idx["monitor"])
    /\ Goto("monitor", "health", idx["monitor"] + 1)
    /\ UNCHANGED <<supVars, script_exists, today, wait_time, do_start,
                   hstVars, notMaster>>
    /\ tick_restart' = [tick_restart EXCEPT ![idx["monitor"]] = "done"]
    /\ UNCHANGED <<status_file, last_write, tick_checked>>

\* update_status and time.sleep(30) at the end of an iteration
MonitorSleep ==
    /\ Live("monitor")
    /\ pc["monitor"] = "health"
    /\ idx["monitor"] > NumServices
    /\ Goto("monitor", "top", 1)
    /\ UNCHANGED <<recVars, supVars, osVars, local_process, wait_time,
                   do_start, hstVars, notMaster>>
    /\ update_status("monitor")
    /\ UNCHANGED <<start_ok, tick_checked, tick_restart>>

\* a failed status write ending the monitor loop
MonitorSleepFails_mut ==
    /\ Live("monitor")
    /\ pc["monitor"] = "health"
    /\ idx["monitor"] > NumServices
    /\ Goto("monitor", "exit", 1)
    /\ UNCHANGED <<recVars, supVars, osVars, local_process, wait_time,
                   do_start, hstVars, notMaster>>
    /\ update_status_fails("monitor")
    /\ UNCHANGED <<start_ok, tick_checked, tick_restart>>

\* the end of an iteration when the write of update_status fails:
\* update_status returns and the loop sleeps its 30 s
MonitorSleepFails ==
    /\ Live("monitor")
    /\ pc["monitor"] = "health"
    /\ idx["monitor"] > NumServices
    /\ Goto("monitor", "top", 1)
    /\ UNCHANGED <<recVars, supVars, osVars, local_process, wait_time,
                   do_start, hstVars, notMaster>>
    /\ update_status_fails("monitor")
    /\ UNCHANGED <<start_ok, tick_checked, tick_restart>>

\* schedule.run_pending() raises: the except clause at the loop boundary
\* logs the exception and sleeps 30 s
MonitorRaise ==
    /\ Live("monitor")
    /\ pc["monitor"] = "pending"
    /\ Goto("monitor", "except_sleep", 1)
    /\ caught' = TRUE
    /\ UNCHANGED <<recVars, supVars, osVars, local_process, wait_time,
                   do_start, delay_log, at_shutdown, cycle_log, rechecked,
                   check_ran, notMaster>>
    /\ UNCHANGED <<start_ok, obsVars>>

\* the monitor loop dropping out when an exception reaches its boundary
MonitorExceptSleep_mut ==
    /\ Live("monitor")
    /\ pc["monitor"] = "except_sleep"
    /\ Goto("monitor", "exit", 1)
    /\ UNCHANGED <<recVars, supVars, osVars, local_process, wait_time,
                   do_start, hstVars, notMaster>>
    /\ UNCHANGED <<start_ok, obsVars>>

\* the loop going on after the sleep of the except clause
MonitorExceptSleep ==
    /\ Live("monitor")
    /\ pc["monitor"] = "except_sleep"
    /\ Goto("monitor", "top", 1)
    /\ UNCHANGED <<recVars, supVars, osVars, local_process, wait_time,
                   do_start, hstVars, notMaster>>
    /\ UNCHANGED <<start_ok, obsVars>>

\* ---------------------------------------------------- integrated manager
\* output_queue.put(line): output_queue[s] tells whether a line has been
\* put on the queue of service s (the display thread that takes the lines
\* off writes no service record and is left out)
put(q) == TRUE

\* service['process'] and service['process'].poll() is None
sm_is_running(s) == i_process[s] # None /\ i_procs[s][i_process[s]] = "alive"

\* the number of child processes the integrated manager has spawned for
\* the services 1..n
RECURSIVE Spawned(_)
Spawned(n) == IF n = 0 THEN 0 ELSE Len(i_procs[n]) + Spawned(n - 1)

\* ServiceManager.start_service; threads is the table of output threads
\* at the call (the calling output thread has left it)
sm_start_service(s, threads) ==
    IF sm_is_running(s)
    THEN /\ out_pc' = threads
         /\ UNCHANGED <<iRecVars, chk_pc, i_procs>>
    ELSE IF ~command_exists[s]
    THEN /\ i_status' = [i_status EXCEPT ![s] = "Failed"]
         /\ output_queue' = [output_queue EXCEPT ![s] = put(@)]
         /\ out_pc' = threads
         /\ UNCHANGED <<i_process, auto_restart, chk_pc, i_procs>>
    ELSE LET k == Len(i_procs[s]) + 1 IN
         /\ Spawned(NumGuiServices) < MaxGuiSpawn
         /\ i_procs' = [Release(i_procs, s, i_process[s]) EXCEPT
                         ![s] = Append(@, "alive")]
         /\ i_process' = [i_process EXCEPT ![s] = k]
         /\ i_status' = [i_status EXCEPT ![s] = "Starting"]
         /\ out_pc' = [threads EXCEPT ![s].loop = @ + 1]
         /\ chk_pc' = [chk_pc EXCEPT ![s] = @ + 1]
         /\ UNCHANGED <<output_queue, auto_restart>>

\* the value ServiceManager.start_service returns when called on s
sm_start_returns(s) ==
    IF sm_is_running(s) THEN FALSE
    ELSE IF ~command_exists[s] THEN FALSE
    ELSE TRUE

\* ServiceManager.stop_service up to the wait
sm_stop_begin(s) ==
    /\ i_status' = [i_status EXCEPT ![s] =
                       IF sm_is_running(s) THEN "Stopping" ELSE "Stopped"]
    /\ UNCHANGED <<i_process, output_queue, auto_restart, i_procs>>

\* ServiceManager.stop_service from the return of wait(timeout=10) on child
\* p: p has exited, or it is still alive and is killed.  The handle that is
\* cleared is the one the record holds now; a child that replaced p
\* meanwhile is left alive.
sm_stop_end(s, p) ==
    /\ i_procs' = IF i_process[s] = p
                  THEN [i_procs EXCEPT ![s][p] = "gone"]
                  ELSE i_procs
    /\ i_process' = [i_process EXCEPT ![s] = None]
    /\ i_status' = [i_status EXCEPT ![s] = "Stopped"]
    /\ UNCHANGED <<output_queue, auto_restart>>

\* the Start button
GuiStart ==
    \E s \in GuiServices :
        /\ gui_pc = "idle"
        /\ sm_start_service(s, out_pc)
        /\ user_stopped' = [user_stopped EXCEPT ![s] = FALSE]
        /\ UNCHANGED <<gui_pc, gui_idx, gui_proc, command_exists, notIntegrated>>

\* the Stop button and the first half of the Restart button
GuiStopBegin ==
    \E s \in GuiServices, cmd \in {"stop", "restart"} :
        /\ gui_pc = "idle"
        /\ sm_stop_begin(s)
        /\ gui_proc' = IF sm_is_running(s) THEN i_process[s] ELSE None
        /\ gui_pc' = IF sm_is_running(s) THEN cmd \o "_wait"
                     ELSE IF cmd = "restart" THEN "restart_pause" ELSE "idle"
        /\ gui_idx' = IF gui_pc' = "idle" THEN 1 ELSE s
        /\ user_stopped' = [user_stopped EXCEPT ![s] =
                               IF cmd = "restart" THEN FALSE ELSE @]
        /\ UNCHANGED <<out_pc, chk_pc, command_exists, notIntegrated>>

GuiStopEnd ==
    /\ gui_pc \in {"stop_wait", "restart_wait"}
    /\ sm_stop_end(gui_idx, gui_proc)
    /\ gui_pc' = IF gui_pc = "restart_wait" THEN "restart_pause" ELSE "idle"
    /\ gui_idx' = IF gui_pc = "restart_wait" THEN gui_idx ELSE 1
    /\ gui_proc' = None
    /\ user_stopped' = [user_stopped EXCEPT ![gui_idx] = (gui_pc = "stop_wait")]
    /\ UNCHANGED <<out_pc, chk_pc, command_exists, notIntegrated>>

\* restart_service after time.sleep(2)
GuiRestartStart ==
    /\ gui_pc = "restart_pause"
    /\ sm_start_service(gui_idx, out_pc)
    /\ gui_pc' = "idle"
    /\ gui_idx' = 1
    /\ UNCHANGED <<gui_proc, user_stopped, command_exists, notIntegrated>>

\* ServiceManager.save_status (the Save Status button): the file is
\* written, or open() raises and the file is left as it was, or json.dump
\* raises after the file was opened; the exception is logged
save_status(outcome) ==
    /\ i_status_file' =
          CASE outcome = "written" ->
                 [kind |-> "json",
                  services |-> [s \in GuiServices |->
                      [status |-> i_status[s],
                       pid |-> IF i_process[s] # None THEN i_process[s] ELSE None,
                       auto_restart |-> json_dump_bool(auto_restart[s])]]]
            [] outcome = "open fails" -> i_status_file
            [] OTHER -> BrokenStatusFile
    /\ saved_auto_restart' =
          IF outcome = "written" THEN auto_restart ELSE saved_auto_restart

GuiSaveStatus ==
    \E outcome \in {"written", "open fails", "dump fails"} :
        /\ gui_pc = "idle"
        /\ save_status(outcome)
        /\ UNCHANGED <<iRecVars, iThrVars, iOsVars, launches, notSaved>>

\* load_status that leaves the flags of the fresh manager alone
load_status_mut(flags) == flags

\* ServiceManager.load_status on the flags of a fresh manager: the flags
\* after the call
load_status(flags) ==
    IF i_status_file.kind = "absent" THEN flags
    ELSE IF i_status_file.kind = "broken" THEN flags
    ELSE [s \in GuiServices |->
             json_load_bool(i_status_file.services[s].auto_restart)]

\* the manager process has ended and a new one is launched: __init__ and
\* the load_status call of run.  The children the old process has left
\* alive go on running; the new manager holds no handle of them.
Launch ==
    /\ gui_pc = "idle"
    /\ launches < MaxLaunch
    /\ launches' = launches + 1
    /\ i_status' = [s \in GuiServices |-> "Stopped"]
    /\ i_process' = [s \in GuiServices |-> None]
    /\ output_queue' = [s \in GuiServices |-> FALSE]
    /\ auto_restart' = load_status([s \in GuiServices |-> TRUE])
    /\ gui_idx' = 1
    /\ gui_proc' = None
    /\ out_pc' = [s \in GuiServices |-> [loop |-> 0, restart_sleep |-> 0]]
    /\ chk_pc' = [s \in GuiServices |-> 0]
    /\ user_stopped' = [s \in GuiServices |-> FALSE]
    /\ i_procs' = [s \in GuiServices |->
                      [p \in 1..Len(i_procs[s]) |->
                          IF i_procs[s][p] = "alive" THEN "alive" ELSE "gone"]]
    /\ UNCHANGED <<gui_pc, command_exists, i_status_file, saved_auto_restart,
                   notSaved>>

\* toggle_auto_restart
GuiToggleAutoRestart ==
    \E s \in GuiServices :
        /\ gui_pc = "idle"
        /\ auto_restart' = [auto_restart EXCEPT ![s] = ~@]
        /\ UNCHANGED <<i_status, i_process, output_queue, iThrVars, iOsVars,
                       notIntegrated>>

\* the Refresh button: refresh_all_status sets every status from poll() and
\* drops the handles of the exited processes
GuiRefresh ==
    /\ gui_pc = "idle"
    /\ i_status' = [s \in GuiServices |->
                       IF i_process[s] = None THEN "Stopped"
                       ELSE CASE i_procs[s][i_process[s]] = "alive" -> "Running"
                              [] i_procs[s][i_process[s]] = "exit0" -> "Stopped"
                              [] OTHER -> "Crashed"]
    /\ i_process' = [s \in GuiServices |->
                        IF sm_is_running(s) THEN i_process[s] ELSE None]
    /\ i_procs' = [s \in GuiServices |-> Release(i_procs, s, i_process[s])[s]]
    /\ UNCHANGED <<output_queue, auto_restart, iThrVars, command_exists,
                   notIntegrated>>

\* monitor_service_output: one pass of the read loop that read a line.
\* kind is what the pass found: a stdout line with a ready keyword, one
\* with an error keyword, or lines that change no status (a stdout line
\* with neither keyword, a stderr line).
OutputRead ==
    \E s \in GuiServices, kind \in {"ready", "error", "plain"} :
        /\ out_pc[s].loop > 0
        /\ sm_is_running(s)
        /\ output_queue' = [output_queue EXCEPT ![s] = put(@)]
        /\ i_status' = [i_status EXCEPT ![s] =
                           CASE kind = "ready" -> "Running"
                             [] kind = "error" -> "Error"
                             [] OTHER -> @]
        /\ UNCHANGED <<i_process, auto_restart, iThrVars, iOsVars,
                       notIntegrated>>

\* the exit handling clearing the handle of the exited process
OutputEnd_mut ==
    \E s \in GuiServices :
        /\ out_pc[s].loop > 0
        /\ ~sm_is_running(s)
        /\ i_process[s] # None
        /\ i_status' = [i_status EXCEPT ![s] =
                           IF i_procs[s][i_process[s]] # "exit0"
                           THEN "Crashed" ELSE "Stopped"]
        /\ i_process' = [i_process EXCEPT ![s] = None]
        /\ out_pc' = [out_pc EXCEPT ![s].loop = @ - 1]
        /\ UNCHANGED <<output_queue, auto_restart, gui_pc, gui_idx, gui_proc,
                       chk_pc, user_stopped, iOsVars, notIntegrated>>

\* monitor_service_output: the loop ends and the exit of the process is
\* handled
OutputEnd ==
    \E s \in GuiServices :
        /\ out_pc[s].loop > 0
        /\ ~sm_is_running(s)
        /\ IF i_process[s] = None
           THEN /\ out_pc' = [out_pc EXCEPT ![s].loop = @ - 1]
                /\ UNCHANGED <<i_status, output_queue>>
           ELSE LET crashed == i_procs[s][i_process[s]] # "exit0" IN
                /\ i_status' = [i_status EXCEPT ![s] =
                                   IF crashed THEN "Crashed" ELSE "Stopped"]
                /\ output_queue' = [output_queue EXCEPT ![s] =
                                       IF crashed THEN put(@) ELSE @]
                /\ out_pc' = [out_pc EXCEPT
                                 ![s].loop = @ - 1,
                                 ![s].restart_sleep =
                                     IF auto_restart[s] /\ crashed
                                     THEN @ + 1 ELSE @]
        /\ UNCHANGED <<i_process, auto_restart, gui_pc, gui_idx, gui_proc,
                       chk_pc, user_stopped, iOsVars, notIntegrated>>

\* the output thread ending after the sleep without the start_service call
OutputAutoRestart_mut ==
    \E s \in GuiServices :
        /\ out_pc[s].restart_sleep > 0
        /\ out_pc' = [out_pc EXCEPT ![s].restart_sleep = @ - 1]
        /\ UNCHANGED <<iRecVars, chk_pc, i_procs>>
        /\ UNCHANGED <<gui_pc, gui_idx, gui_proc, user_stopped, command_exists,
                       notIntegrated>>

\* monitor_service_output: start_service after time.sleep(5)
OutputAutoRestart ==
    \E s \in GuiServices :
        /\ out_pc[s].restart_sleep > 0
        /\ sm_start_service(s, [out_pc EXCEPT ![s].restart_sleep = @ - 1])
        /\ UNCHANGED <<gui_pc, gui_idx, gui_proc, user_stopped, command_exists,
                       notIntegrated>>

\* the startup check without the test of the status
StartupCheck_mut ==
    \E s \in GuiServices :
        /\ chk_pc[s] > 0
        /\ chk_pc' = [chk_pc EXCEPT ![s] = @ - 1]
        /\ i_status' = [i_status EXCEPT ![s] =
                           IF sm_is_running(s) THEN "Running" ELSE @]
        /\ UNCHANGED <<i_process, output_queue, auto_restart, gui_pc, gui_idx,
                       gui_proc, out_pc, user_stopped, iOsVars, notIntegrated>>

\* check_startup_status, after time.sleep(3)
StartupCheck ==
    \E s \in GuiServices :
        /\ chk_pc[s] > 0
        /\ chk_pc' = [chk_pc EXCEPT ![s] = @ - 1]
        /\ i_status' = [i_status EXCEPT ![s] =
                           IF sm_is_running(s) /\ @ = "Starting"
                           THEN "Running" ELSE @]
        /\ UNCHANGED <<i_process, output_queue, auto_restart, gui_pc, gui_idx,
                       gui_proc, out_pc, user_stopped, iOsVars, notIntegrated>>

\* a child process of the integrated manager exits on its own (or in
\* answer to terminate)
ChildExit ==
    \E s \in GuiServices, code \in {"exit0", "exit1"} :
      \E p \in 1..Len(i_procs[s]) :
        /\ i_procs[s][p] = "alive"
        /\ i_procs' = IF i_process[s] = p
                      THEN [i_procs EXCEPT ![s][p] = code]
                      ELSE [i_procs EXCEPT ![s][p] = "gone"]
        /\ UNCHANGED <<iRecVars, iThrVars, command_exists, notIntegrated>>

\* ------------------------------------------------------------ environment
\* a child process exits on its own (or in answer to the graceful signal)
ProcExit ==
    \E s \in Services, code \in {"exit0", "exit1"} :
      \E p \in 1..Len(procs[s]) :
        /\ procs[s][p] = "alive"
        /\ procs' = IF Referenced(s, p)
                    THEN [procs EXCEPT ![s][p] = code]
                    ELSE [procs EXCEPT ![s][p] = "gone"]
        /\ UNCHANGED <<recVars, supVars, script_exists, today, thrVars,
                       hstVars, notMaster>>
    /\ UNCHANGED <<start_ok, obsVars>>

\* midnight passes.  The date is read by check_monthly_restart only, so the
\* step is taken where the monitor loop is about to run the scheduler.
AdvanceDay ==
    /\ pc["monitor"] = "top"
    /\ today < MaxDay
    /\ today' = today + 1
    /\ rechecked' = FALSE
    /\ UNCHANGED <<recVars, supVars, procs, script_exists, thrVars, delay_log,
                   at_shutdown, cycle_log, caught, check_ran, notMaster>>
    /\ UNCHANGED <<start_ok, obsVars>>

\* ------------------------------------------- the operations called alone
\* A caller on the main thread calls the operations of a constructed
\* manager one after the other, in any order; no monitor thread runs.
Caller == "main"

ApiFrame ==
    UNCHANGED <<supVars, script_exists, today, wait_time, do_start, hstVars,
                tick_checked, tick_restart, command, boVars, iVars>>

\* the value start_service returns without spawning: True on the already
\* running branch, False when the script is missing
StartBeginReturns(s) == pid[s] # None /\ is_process_running(s, pid[s])

\* the number of times in a row op is called on s, this call included
Rep(op, s) == IF ret.op = op /\ ret.svc = s THEN ret.rep + 1 ELSE 1

\* start_service(s) up to the startup sleep; op is the operation that
\* returns to the caller when start_service returns
ApiStartCall(s, op) ==
    /\ StartBegin(Caller, s)
    /\ IF local_process'[Caller] # None
       THEN /\ Goto(Caller, "api_" \o op \o "_start_wait", s)
            /\ ret' = [op |-> op, svc |-> s, val |-> "none",
                       stop |-> IF op = "start" THEN "none" ELSE ret.stop,
                       rep |-> IF op = "start" THEN Rep(op, s) ELSE ret.rep]
       ELSE /\ Goto(Caller, "api", 1)
            /\ ret' = [op |-> op, svc |-> s,
                       val |-> Bool(StartBeginReturns(s)),
                       stop |-> IF op = "start" THEN "none" ELSE ret.stop,
                       rep |-> IF op = "start" THEN Rep(op, s) ELSE ret.rep]

\* a call of start_service(s)
ApiStart ==
    \E s \in Services :
        /\ pc[Caller] = "api"
        /\ calls < MaxCalls
        /\ calls' = calls + 1
        /\ ApiStartCall(s, "start")
        /\ UNCHANGED <<status_file, last_write>>
        /\ ApiFrame

\* start_service after the startup sleep, called directly or by
\* restart_service
ApiStartWait ==
    /\ pc[Caller] \in {"api_start_start_wait", "api_restart_start_wait"}
    /\ ret' = [ret EXCEPT !.val =
                   Bool(poll_is_None(idx[Caller], local_process[Caller]))]
    /\ StartEnd(Caller, idx[Caller])
    /\ Goto(Caller, "api", 1)
    /\ UNCHANGED <<calls, status_file, last_write>>
    /\ ApiFrame

\* restart_service giving up when its stop_service call fails
ApiStopCall_mut(s, raised, op, next) ==
    /\ raised => StopIsRunning(s)
    /\ IF raised
       THEN /\ UNCHANGED <<recVars, procs, local_process>>
            /\ Goto(Caller, "api", 1)
            /\ ret' = [op |-> op, svc |-> s, val |-> "False",
                       stop |-> "False", rep |-> Rep(op, s)]
       ELSE /\ StopBegin(Caller, s)
            /\ IF StopIsRunning(s)
               THEN /\ Goto(Caller, "api_" \o op \o "_stop_wait", s)
                    /\ ret' = [op |-> op, svc |-> s, val |-> "none",
                               stop |-> "none", rep |-> Rep(op, s)]
               ELSE /\ Goto(Caller, next, IF next = "api" THEN 1 ELSE s)
                    /\ ret' = [op |-> op, svc |-> s,
                               val |-> IF op = "stop" THEN "True" ELSE "none",
                               stop |-> "True", rep |-> Rep(op, s)]
    /\ UNCHANGED start_ok

\* stop_service(s) up to the wait; raised tells whether the call that
\* signals the child raised an OSError, which the except clause turns into
\* the return value False.  next is where the caller goes when stop_service
\* has returned.
ApiStopCall(s, raised, op, next) ==
    /\ raised => StopIsRunning(s)
    /\ IF raised
       THEN /\ UNCHANGED <<recVars, procs, local_process>>
            /\ Goto(Caller, next, IF next = "api" THEN 1 ELSE s)
            /\ ret' = [op |-> op, svc |-> s,
                       val |-> IF op = "stop" THEN "False" ELSE "none",
                       stop |-> "False", rep |-> Rep(op, s)]
       ELSE /\ StopBegin(Caller, s)
            /\ IF StopIsRunning(s)
               THEN /\ Goto(Caller, "api_" \o op \o "_stop_wait", s)
                    /\ ret' = [op |-> op, svc |-> s, val |-> "none",
                               stop |-> "none", rep |-> Rep(op, s)]
               ELSE /\ Goto(Caller, next, IF next = "api" THEN 1 ELSE s)
                    /\ ret' = [op |-> op, svc |-> s,
                               val |-> IF op = "stop" THEN "True" ELSE "none",
                               stop |-> "True", rep |-> Rep(op, s)]
    /\ UNCHANGED start_ok

\* a call of stop_service(s)
ApiStop ==
    \E s \in Services, raised \in BOOLEAN :
        /\ pc[Caller] = "api"
        /\ calls < MaxCalls
        /\ calls' = calls + 1
        /\ ApiStopCall(s, raised, "stop", "api")
        /\ UNCHANGED <<status_file, last_write>>
        /\ ApiFrame

\* the value stop_service returns after the wait: False when kill() was
\* called on a cleared handle
StopEndReturns(t, s) ==
    ~(poll_is_None(s, local_process[t]) /\ process[s] = None)

\* stop_service from the return of the wait, called directly
ApiStopWait ==
    /\ pc[Caller] = "api_stop_stop_wait"
    /\ ret' = [ret EXCEPT !.val = Bool(StopEndReturns(Caller, idx[Caller])),
                          !.stop = Bool(StopEndReturns(Caller, idx[Caller]))]
    /\ StopEnd(Caller, idx[Caller])
    /\ Goto(Caller, "api", 1)
    /\ UNCHANGED <<start_ok, calls, status_file, last_write>>
    /\ ApiFrame

\* a call of restart_service(s): stop_service(s), whose value is dropped
ApiRestart ==
    \E s \in Services, raised \in BOOLEAN :
        /\ pc[Caller] = "api"
        /\ calls < MaxCalls
        /\ calls' = calls + 1
        /\ ApiStopCall(s, raised, "restart", "api_restart_pause")
        /\ UNCHANGED <<status_file, last_write>>
        /\ ApiFrame

\* restart_service: stop_service from the return of the wait
ApiRestartStopWait ==
    /\ pc[Caller] = "api_restart_stop_wait"
    /\ ret' = [ret EXCEPT !.stop = Bool(StopEndReturns(Caller, idx[Caller]))]
    /\ StopEnd(Caller, idx[Caller])
    /\ Goto(Caller, "api_restart_pause", idx[Caller])
    /\ UNCHANGED <<start_ok, calls, status_file, last_write>>
    /\ ApiFrame

\* restart_service after time.sleep(2): return self.start_service(s)
ApiRestartStart ==
    /\ pc[Caller] = "api_restart_pause"
    /\ ApiStartCall(idx[Caller], "restart")
    /\ UNCHANGED <<calls, status_file, last_write>>
    /\ ApiFrame

\* a call of check_service_health(s)
ApiHealth ==
    \E s \in Services :
        /\ pc[Caller] = "api"
        /\ calls < MaxCalls
        /\ calls' = calls + 1
        /\ check_service_health(s)
        /\ ret' = [op |-> "health", svc |-> s, val |-> Bool(healthy(s)),
                   stop |-> "none", rep |-> Rep("health", s)]
        /\ UNCHANGED <<pc, idx, local_process, start_ok, status_file,
                       last_write>>
        /\ ApiFrame

\* a call of update_status()
ApiUpdateStatus ==
    /\ pc[Caller] = "api"
    /\ update_status(Caller)
    /\ UNCHANGED <<recVars, procs, pc, idx, local_process, start_ok, apiVars>>
    /\ ApiFrame

\* --------------------------------------------- the stop and restart commands
\* main() of a second process: it constructs its own MasterServiceManager,
\* whose records hold no handle and no pid, and calls stop_all_services or
\* restart_all_services on it.  The record variables are those of this
\* manager; the supervisor started earlier by the start command is present
\* through the child processes it has spawned.
CliFrame ==
    UNCHANGED <<supVars, osVars, local_process, wait_time, do_start, hstVars,
                notMaster>>

\* command dispatch of main
CliMain ==
    /\ pc["main"] = "cli"
    /\ command \in {"stop", "restart"}
    /\ Goto("main", IF command = "stop" THEN "cli_stop"
                    ELSE "cli_restart_stop", 1)
    /\ UNCHANGED <<recVars, start_ok, obsVars>>
    /\ CliFrame

\* stop: manager.stop_all_services()
CliStopNext == StopAllNext("main", "cli_stop")

\* end of stop_all_services; main returns and the process exits
CliStopDone ==
    /\ pc["main"] = "cli_stop"
    /\ idx["main"] > NumServices
    /\ Goto("main", "done", 1)
    /\ update_status("main")
    /\ UNCHANGED <<recVars, start_ok, tick_checked, tick_restart>>
    /\ CliFrame

\* restart: manager.restart_all_services(), its stop_all_services
CliRestartStopNext == StopAllNext("main", "cli_restart_stop")

\* restart_all_services: time.sleep(5) between the two passes
CliRestartPause ==
    /\ pc["main"] = "cli_restart_stop"
    /\ idx["main"] > NumServices
    /\ Goto("main", "cli_restart_start", 1)
    /\ update_status("main")
    /\ UNCHANGED <<recVars, start_ok, tick_checked, tick_restart>>
    /\ CliFrame

\* restart_all_services: start_all_services
CliRestartStartNext == StartAllNext("main", "cli_restart_start")

CliRestartStartWait == StartAllWait("main", "cli_restart_start")

\* end of start_all_services; main returns and the process exits, the
\* children it has spawned stay
CliRestartDone ==
    /\ pc["main"] = "cli_restart_start"
    /\ idx["main"] > NumServices
    /\ Goto("main", "done", 1)
    /\ update_status("main")
    /\ UNCHANGED <<recVars, start_ok, tick_checked, tick_restart>>
    /\ CliFrame

\* --------------------------------------------------------- specifications
\* one run of the master manager on an ordinary day, ended by a signal
Next ==
    \/ MainRun
    \/ MainStartAllNext
    \/ MainStartAllWait
    \/ MainStartMonitor
    \/ SignalHandler
    \/ HandlerStopNext
    \/ HandlerStopWait
    \/ HandlerExit
    \/ MainRaise
    \/ FinallyStopNext
    \/ FinallyStopWait
    \/ RunFinally
    \/ MonitorTop
    \/ MonitorRunPending
    \/ MonitorHealth
    \/ MonitorRestart
    \/ MonitorRestartWait
    \/ MonitorSleep
    \/ ProcExit

Spec == Init /\ [][Next]_vars

\* the master manager running over the calendar window, not signalled
InitSched ==
    /\ InitMaster
    /\ script_exists \in [Services -> BOOLEAN]
    /\ today = 0
    /\ InitBackoffIdle
    /\ InitIntegrated

NextSched ==
    \/ MainRun
    \/ MainStartAllNext
    \/ MainStartAllWait
    \/ MainStartMonitor
    \/ MonitorTop
    \/ MonitorRunPending
    \/ CycleStopNext
    \/ CycleStopWait
    \/ CyclePause
    \/ CycleStartNext
    \/ CycleStartWait
    \/ CycleDone
    \/ MonitorHealth
    \/ MonitorRestart
    \/ MonitorRestartWait
    \/ MonitorSleep
    \/ ProcExit
    \/ AdvanceDay

SpecSched == InitSched /\ [][NextSched]_vars

\* the master manager running and not signalled; the monitor thread is
\* scheduled again whenever one of its sleeps is over
MonitorLoop ==
    \/ MonitorTop
    \/ MonitorRunPending
    \/ MonitorHealth
    \/ MonitorRestart
    \/ MonitorRestartWait
    \/ MonitorSleep

MonitorNext ==
    \/ MonitorLoop
    \/ MonitorExceptSleep
    \/ MonitorSleepFails

NextLive ==
    \/ MainRun
    \/ MainStartAllNext
    \/ MainStartAllWait
    \/ MainStartMonitor
    \/ MonitorNext
    \/ MonitorRaise
    \/ ProcExit

SpecLive == Init /\ [][NextLive]_vars /\ WF_vars(MonitorNext)

\* the same with no exception raised in the ticks
NextRun ==
    \/ MainRun
    \/ MainStartAllNext
    \/ MainStartAllWait
    \/ MainStartMonitor
    \/ MonitorLoop
    \/ ProcExit

SpecRun == Init /\ [][NextRun]_vars /\ WF_vars(MonitorLoop)

\* the master manager running on the first Monday of a month, not
\* signalled; the monitor thread, restart_all_services included, is
\* scheduled again whenever one of its sleeps or waits is over
MaintenanceCycle ==
    \/ CycleStopNext
    \/ CycleStopWait
    \/ CyclePause
    \/ CycleStartNext
    \/ CycleStartWait
    \/ CycleDone

NextMaint ==
    \/ MainRun
    \/ MainStartAllNext
    \/ MainStartAllWait
    \/ MainStartMonitor
    \/ MonitorLoop
    \/ MaintenanceCycle
    \/ ProcExit

SpecMaint ==
    InitSched /\ [][NextMaint]_vars /\ WF_vars(MonitorLoop \/ MaintenanceCycle)

\* the operations of the master manager called one after the other
InitOps ==
    /\ InitManager
    /\ NoChildren
    /\ command = "none"
    /\ pc = [t \in Threads |-> IF t = Caller THEN "api" ELSE "off"]
    /\ script_exists \in [Services -> BOOLEAN]
    /\ today = 1
    /\ InitBackoffIdle
    /\ InitIntegrated

NextOps ==
    \/ ApiStart
    \/ ApiStartWait
    \/ ApiStop
    \/ ApiStopWait
    \/ ApiRestart
    \/ ApiRestartStopWait
    \/ ApiRestartStart
    \/ ApiHealth
    \/ ApiUpdateStatus
    \/ ProcExit

SpecOps == InitOps /\ [][NextOps]_vars

\* the stop or restart command run while a supervisor started by the start
\* command supervises the services of sup, each with its child alive
InitCli ==
    /\ InitManager
    /\ command \in {"stop", "restart"}
    /\ pc = [t \in Threads |-> IF t = "main" THEN "cli" ELSE "off"]
    /\ script_exists \in [Services -> BOOLEAN]
    /\ \E sup \in SUBSET {s \in Services : script_exists[s]} :
          /\ sup # {}
          /\ procs = [s \in Services |->
                         IF s \in sup THEN <<"alive">> ELSE <<>>]
    /\ today = 1
    /\ InitBackoffIdle
    /\ InitIntegrated

NextCli ==
    \/ CliMain
    \/ CliStopNext
    \/ CliStopDone
    \/ CliRestartStopNext
    \/ CliRestartPause
    \/ CliRestartStartNext
    \/ CliRestartStartWait
    \/ CliRestartDone
    \/ ProcExit

SpecCli == InitCli /\ [][NextCli]_vars

\* the restart policy applied to two failure counts
InitBackoff ==
    /\ InitMaster
    /\ script_exists = [s \in Services |-> TRUE]
    /\ today = 1
    /\ bo_n \in 0..MaxCount
    /\ bo_m \in 0..MaxCount
    /\ bo_out = <<>>
    /\ cal_out = <<>>
    /\ InitIntegrated

BackoffApply ==
    /\ bo_out = <<>>
    /\ bo_out' = <<RestartDecision(bo_n), RestartDecision(bo_m)>>
    /\ UNCHANGED <<recVars, supVars, osVars, thrVars, hstVars, bo_n, bo_m,
                   cal_out, iVars, start_ok, obsVars, apiVars>>

NextBackoff == BackoffApply

SpecBackoff == InitBackoff /\ [][NextBackoff]_vars

\* the first-Monday computations of check_monthly_restart and status
\* applied to a day of 2024-01-01 .. 2024-10-31; the months of the window
\* begin on every day of the week
InitCal ==
    /\ InitMaster
    /\ script_exists = [s \in Services |-> TRUE]
    /\ today \in 0..MaxCalDay
    /\ InitBackoffIdle
    /\ InitIntegrated

CalApply ==
    /\ cal_out = <<>>
    /\ cal_out' = <<first_monday(today), next_first_monday(today)>>
    /\ UNCHANGED <<recVars, supVars, osVars, thrVars, hstVars, bo_n, bo_m,
                   bo_out, iVars, start_ok, obsVars, apiVars>>

NextCal == CalApply

SpecCal == InitCal /\ [][NextCal]_vars

\* the integrated manager with its window open
InitI ==
    /\ InitMaster
    /\ script_exists = [s \in Services |-> TRUE]
    /\ today = 1
    /\ InitBackoffIdle
    /\ i_status = [s \in GuiServices |-> "Stopped"]
    /\ i_process = [s \in GuiServices |-> None]
    /\ output_queue = [s \in GuiServices |-> FALSE]
    /\ auto_restart \in [GuiServices -> BOOLEAN]
    /\ gui_pc = "idle"
    /\ gui_idx = 1
    /\ gui_proc = None
    /\ out_pc = [s \in GuiServices |-> [loop |-> 0, restart_sleep |-> 0]]
    /\ chk_pc = [s \in GuiServices |-> 0]
    /\ user_stopped = [s \in GuiServices |-> FALSE]
    /\ i_status_file = NoStatusFile
    /\ saved_auto_restart = [s \in GuiServices |-> TRUE]
    /\ launches = 1
    /\ i_procs = [s \in GuiServices |-> <<>>]
    /\ command_exists \in [GuiServices -> BOOLEAN]

NextI ==
    \/ GuiStart
    \/ GuiStopBegin
    \/ GuiStopEnd
    \/ GuiRestartStart
    \/ GuiToggleAutoRestart
    \/ GuiRefresh
    \/ OutputRead
    \/ OutputEnd
    \/ OutputAutoRestart
    \/ StartupCheck
    \/ ChildExit

SpecI == InitI /\ [][NextI]_vars

\* the integrated manager with its status file: the Save Status button and
\* launches of the manager, with the buttons and the exits that bring the
\* records to the statuses Starting, Running, Stopped and Crashed, with and
\* without a handle
NextSave ==
    \/ GuiStart
    \/ GuiToggleAutoRestart
    \/ GuiRefresh
    \/ ChildExit
    \/ GuiSaveStatus
    \/ Launch

SpecSave == InitI /\ [][NextSave]_vars

\* ------------------------------------------------------------------ claims
ShutdownPcs == {"sig_stop", "sig_stop_wait", "fin_stop", "fin_stop_wait", "done"}

\* C1: in every reachable state, for every service, the process handle is
\* non-null if and only if the status is one of Starting, Running, Stopping
\* (the master manager has Running only).
C1_HandleIffLive ==
    \A s \in Services :
        (process[s] # None) <=> (status[s] \in {"starting", "running", "stopping"})

\* C2: the restart delay is a function of the failure count n only: 2^n
\* seconds with a restart for n <= 3, a fixed 60 seconds for n > 3; it is
\* non-decreasing in n up to the threshold; delay(0) = 1, delay(3) = 8,
\* delay(4) = 60.
C2_Table == <<2, 4, 8>>

C2_Expected(n) == IF n = 0 THEN 1 ELSE IF n <= 3 THEN C2_Table[n] ELSE 60

C2_BackoffDelay ==
    bo_out # <<>> =>
        /\ bo_out[1].wait = C2_Expected(bo_n)
        /\ bo_out[2].wait = C2_Expected(bo_m)
        /\ (bo_n <= bo_m /\ bo_m <= 3) => bo_out[1].wait <= bo_out[2].wait
        /\ (bo_n = bo_m) => bo_out[1] = bo_out[2]
        /\ bo_out[1].start = (bo_n <= 3)

C2_Witness ==
    /\ bo_out # <<>>
    /\ bo_n = 3
    /\ bo_m = 4
    /\ bo_out[1].wait = 8
    /\ bo_out[2].wait = 60

\* C3: when a service's process fails again after each restart, the
\* successive restart attempts are preceded by delays of 1 s, 2 s and 4 s,
\* and the attempt after the fourth failure by 60 s.
C3_Delays == <<1, 2, 4, 60>>

C3_BackoffSequence ==
    \A s \in Services :
        \A i \in 1..Len(delay_log[s]) :
            i <= 4 => delay_log[s][i] = C3_Delays[i]

\* C4: within one calendar month the scheduler's checks trigger the full
\* restart cycle at most once.
SameMonth(a, b) ==
    /\ DateOf(a).month = DateOf(b).month
    /\ DateOf(a).year = DateOf(b).year

C4_AtMostOncePerMonth ==
    \A i, j \in 1..Len(cycle_log) :
        i # j => ~SameMonth(cycle_log[i], cycle_log[j])

\* a cycle has run this month, the month is not over and the scheduler has
\* been consulted again on a later tick
C4_Witness ==
    /\ Len(cycle_log) = 1
    /\ today = first_monday(today)
    /\ last_monthly_restart = today
    /\ rechecked
    /\ pc["monitor"] = "health"

\* C5: when shutdown is invoked while two services are Running, on
\* completion both have status Stopped and the PID file is removed.
C5_ShutdownStopsAll ==
    (pc["main"] = "done" /\ Cardinality(at_shutdown) >= 2) =>
        /\ \A s \in at_shutdown : status[s] = "stopped"
        /\ ~pid_file

\* C6: once the shutdown signal has set running = false the monitor loop
\* starts no service, and no service process is alive when the shutdown
\* pass has completed.
C6_NoStartAfterShutdown ==
    /\ [][pc["main"] \in ShutdownPcs =>
            \A s \in Services : Len(procs'[s]) = Len(procs[s])]_vars
    /\ [](pc["main"] = "done" =>
            \A s \in Services : \A p \in 1..Len(procs[s]) : procs[s][p] # "alive")

\* C7: no two threads are inside operations that write the same service
\* record at the same time.
InOperation(t, s) ==
    /\ idx[t] = s
    /\ pc[t] \in {"start_all_wait", "sig_stop_wait", "fin_stop_wait",
                  "restart_wait", "cyc_stop_wait", "cyc_start_wait"}

C7_SingleWriter ==
    \A s \in Services : ~(InOperation("main", s) /\ InOperation("monitor", s))

\* C10: a started process that exits with code 0 before the startup wait
\* is over leaves the service with status Stopped.
C10_CleanExitIsStopped ==
    [][\A t \in Threads :
          (/\ pc[t] \in {"start_all_wait", "restart_wait", "cyc_start_wait"}
           /\ pc'[t] \in {"start_all", "health", "cyc_start"}
           /\ procs[idx[t]][local_process[t]] = "exit0")
          => status'[idx[t]] = "stopped"]_vars

\* C8 as stated: a step of an output thread changes no status and starts
\* or stops no process.
OutputStep ==
    IF out_pc' = out_pc THEN OutputRead ELSE OutputEnd \/ OutputAutoRestart

C8_Changed(s) ==
    \/ i_status'[s] # i_status[s]
    \/ i_process'[s] # i_process[s]
    \/ output_queue'[s] # output_queue[s]
    \/ i_procs'[s] # i_procs[s]

C9_CheckRuns(s) == chk_pc'[s] = chk_pc[s] - 1

C11_RestartCountIsStartOk ==
    [][status_file' # status_file =>
          \A s \in Services :
              status_file'[s].restart_count = start_ok[s]]_vars

\* C12: a call of stop_service on a service that is already stopped
\* returns True at once and leaves the status stopped, however many times
\* in a row it is made.
C12_AlreadyStopped(s) == status[s] = "stopped" /\ ~StopIsRunning(s)

C12_StopIdempotent ==
    [][\A s \in Services :
          (/\ calls' = calls + 1
           /\ ret'.op = "stop"
           /\ ret'.svc = s
           /\ C12_AlreadyStopped(s))
          => /\ ret'.val = "True"
             /\ status'[s] = "stopped"
             /\ pc'[Caller] = "api"
             /\ C12_AlreadyStopped(s)']_vars

\* stop_service has returned True from its third call in a row on one
\* service
C12_Witness ==
    \E s \in Services :
        /\ ret = [op |-> "stop", svc |-> s, val |-> "True", stop |-> "True",
                  rep |-> 3]
        /\ status[s] = "stopped"
        /\ pc[Caller] = "api"

\* C13: start on a service whose process is already running returns
\* success (and spawns nothing).  Stated for the integrated manager: in
\* every state where the process of s is running, start_service(s) returns
\* True.
C13_StartRunningSucceeds ==
    \A s \in GuiServices : sm_is_running(s) => sm_start_returns(s)

\* C13 for the master manager: a start_service call on a service whose
\* process is running returns True at once, spawns nothing and leaves pid,
\* process and restart_count as they were.
C13_MasterStartRunning ==
    [][\A s \in Services :
          (/\ calls' = calls + 1
           /\ ret'.op = "start"
           /\ ret'.svc = s
           /\ StartBeginReturns(s))
          => /\ ret'.val = "True"
             /\ procs' = procs
             /\ pid'[s] = pid[s]
             /\ process'[s] = process[s]
             /\ restart_count'[s] = restart_count[s]]_vars

C15_StopWaits == {"api_stop_stop_wait", "api_restart_stop_wait"}

C15_StoppingThenStopped ==
    /\ [](pc[Caller] \in C15_StopWaits => status[idx[Caller]] = "stopping")
    /\ [][(pc[Caller] \in C15_StopWaits /\ pc'[Caller] # pc[Caller]) =>
            /\ status'[idx[Caller]] = "stopped"
            /\ process'[idx[Caller]] = None
            /\ pid'[idx[Caller]] = None]_vars

\* C15 for the integrated manager: while stop_service waits the status is
\* Stopping, and when it returns the status is Stopped and the handle None.
C15_GuiStoppingThenStopped ==
    /\ [](gui_pc \in {"stop_wait", "restart_wait"} =>
            i_status[gui_idx] = "Stopping")
    /\ [][(gui_pc \in {"stop_wait", "restart_wait"} /\ gui_pc' # gui_pc) =>
            /\ i_status'[gui_idx] = "Stopped"
            /\ i_process'[gui_idx] = None]_vars

\* C16: when the stop_service call of restart_service returns, with True
\* or with False, restart_service has not returned and goes on to its
\* pause; the step after the pause is a start_service call on the same
\* service; and the value restart_service returns is the value of that
\* call (True exactly when one more start_service call has succeeded).
C16_StopReturns ==
    /\ ret'.op = "restart"
    /\ ret'.stop # "none"
    /\ calls' = calls + 1 \/ pc[Caller] = "api_restart_stop_wait"

C16_RestartReturns ==
    /\ ret'.op = "restart"
    /\ ret'.val # "none"
    /\ pc[Caller] \in {"api_restart_pause", "api_restart_start_wait"}

C16_RestartAlwaysStarts ==
    [][/\ C16_StopReturns =>
            /\ pc'[Caller] = "api_restart_pause"
            /\ idx'[Caller] = ret'.svc
            /\ ret'.val = "none"
       /\ (pc[Caller] = "api_restart_pause" /\ pc'[Caller] # pc[Caller]) =>
            /\ ret'.svc = idx[Caller]
            /\ \/ /\ pc'[Caller] = "api_restart_start_wait"
                  /\ Len(procs'[idx[Caller]]) = Len(procs[idx[Caller]]) + 1
               \/ /\ pc'[Caller] = "api"
                  /\ status'[idx[Caller]] \in {"running", "error"}
                  /\ ret'.val # "none"
       /\ C16_RestartReturns =>
            /\ pc'[Caller] = "api"
            /\ ret'.val = Bool(start_ok'[ret'.svc] = start_ok[ret'.svc] + 1)
            /\ ret'.val = Bool(status'[ret'.svc] = "running")]_vars

\* restart_service has returned the value of its start_service call after
\* its stop_service call had failed
C16_Witness ==
    /\ pc[Caller] = "api"
    /\ ret.op = "restart"
    /\ ret.stop = "False"
    /\ ret.val = "True"
    /\ status[ret.svc] = "running"

C18_LoopSurvives ==
    /\ [][pc'["monitor"] = "exit" =>
            (pc["monitor"] \in {"top", "exit"} /\ ~running)]_vars
    /\ (pc["monitor"] = "except_sleep") ~>
            (pc["monitor"] = "pending" \/ ~running)

\* a tick checks the services after an exception was caught in an earlier
\* tick
C18_Witness ==
    /\ caught
    /\ running
    /\ pc["monitor"] = "health"
    /\ tick_checked # {}

\* C19: a step in which a start or a health check of one service fails
\* (its consecutive_failures goes up by one) changes no field of another
\* service's record; a tick in which a service was found dead still checks
\* every service before it writes the status record; and while a service
\* is in error the later ticks go on checking every service (until the
\* model's MaxSpawn child processes are used up).
C19_Record(s) ==
    <<status[s], pid[s], process[s], restart_count[s], consecutive_failures[s]>>

C20_Attempted(s) ==
    \/ tick_restart[s] = "done"
    \/ pc["monitor"] = "restart_wait" /\ idx["monitor"] = s

LiveProcesses(s) == {p \in 1..Len(procs[s]) : procs[s][p] = "alive"}

C21_StopStops ==
    (command = "stop" /\ pc["main"] = "done") =>
        \A s \in Services : LiveProcesses(s) = {}

C21_RestartKeepsOne ==
    command = "restart" =>
        \A s \in Services : Cardinality(LiveProcesses(s)) <= 1

C21_CliStopAndRestart ==
    /\ C21_StopStops
    /\ C21_RestartKeepsOne

\* stop_all_services of the stop and restart commands never waits for a
\* child: the manager it is called on holds no handle
C21_CliStopNeverWaits ==
    pc["main"] \notin {"cli_stop_wait", "cli_restart_stop_wait"}

\* C22: the PID file is present from write_pid_file in run until the
\* shutdown has stopped the services: while run starts the services and
\* while it idles, and during stop_all_services of the signal handler; it
\* is removed only at the end of a stop_all_services pass of the shutdown;
\* and it is absent once run has ended, whether by the signal handler or by
\* an exception.
C22_Supervising == pc["main"] \in {"start_all", "start_all_wait", "idle"}

C23_HealthCall(s) ==
    /\ calls' = calls + 1
    /\ ret'.op = "health"
    /\ ret'.svc = s

C23_HealthCheckEffect ==
    [][\A s \in Services :
         (C23_HealthCall(s) /\ pid[s] # None) =>
            IF procs[s][pid[s]] = "alive"
            THEN /\ status'[s] = "running"
                 /\ consecutive_failures'[s] = 0
                 /\ pid'[s] = pid[s]
                 /\ process'[s] = process[s]
            ELSE /\ status'[s] = "died"
                 /\ pid'[s] = None
                 /\ process'[s] = None
                 /\ consecutive_failures'[s] = consecutive_failures[s] + 1]_vars

\* a health check has found the process of a started service dead
C23_Witness ==
    /\ ret.op = "health"
    /\ ret.val = "False"
    /\ status[ret.svc] = "died"
    /\ pid[ret.svc] = None
    /\ consecutive_failures[ret.svc] = 1
    /\ restart_count[ret.svc] = 1

\* C24: a check_service_health call on a service whose record holds no
\* handle leaves every field of the record as it was, last_health_check
\* included.
C24_Record(s) ==
    <<status[s], pid[s], process[s], restart_count[s],
      consecutive_failures[s], last_health_check[s]>>

C24_NoHandleNoOp ==
    [][\A s \in Services :
         (C23_HealthCall(s) /\ process[s] = None) =>
            C24_Record(s)' = C24_Record(s)]_vars

\* the same with last_health_check left out of the record: this much of
\* the claim holds
C24_NoHandleKeepsRest ==
    [][\A s \in Services :
         (C23_HealthCall(s) /\ process[s] = None) =>
            C19_Record(s)' = C19_Record(s)]_vars

\* C25: consecutive_failures is never negative; a check_service_health
\* call that returns True and a start_service call that returns True leave
\* it at 0; a step in which a service is found dead (its status becomes
\* died) adds exactly one to it.
C25_FailureCount ==
    /\ [](\A s \in Services : consecutive_failures[s] >= 0)
    /\ [][\A s \in Services :
            /\ (C23_HealthCall(s) /\ ret'.val = "True") =>
                   consecutive_failures'[s] = 0
            /\ start_ok'[s] = start_ok[s] + 1 =>
                   consecutive_failures'[s] = 0
            /\ (status'[s] = "died" /\ status[s] # "died") =>
                   consecutive_failures'[s] = consecutive_failures[s] + 1]_vars

\* a service found dead, with one failure counted, has been started again
\* and its count is back at 0
C25_Witness ==
    /\ ret.op = "start"
    /\ ret.val = "True"
    /\ restart_count[ret.svc] = 2
    /\ consecutive_failures[ret.svc] = 0
    /\ last_health_check[ret.svc] = Checked

C26_DiedHasOneFailure ==
    \A s \in Services : status[s] = "died" => consecutive_failures[s] = 1

\* C27: last_monthly_restart names the current month only when the
\* stop-all, pause, start-all cycle of that month has been completed: the
\* monitor thread is not inside restart_all_services.
C27_InCycle ==
    pc["monitor"] \in {"cyc_stop", "cyc_stop_wait", "cyc_start",
                       "cyc_start_wait"}

C27_RecordedAfterCycle ==
    (last_monthly_restart # NoDate /\ SameMonth(last_monthly_restart, today))
        => ~C27_InCycle

\* C28: a check_monthly_restart call made on the first Monday of the
\* month (a Monday among the days 1..7) while last_monthly_restart is None
\* or names another month or year enters restart_all_services, beginning
\* with its stop pass; a call made on any other day starts nothing and
\* leaves last_monthly_restart as it was.
C28_FirstMondayOfMonth(n) == DateOf(n).day <= 7 /\ n % 7 = 0

C28_CheckRuns == pc["monitor"] = "pending" /\ check_ran'

C28_SchedulerCheck ==
    [][C28_CheckRuns =>
         IF C28_FirstMondayOfMonth(today)
         THEN (last_monthly_restart = NoDate
               \/ ~SameMonth(last_monthly_restart, today)) =>
                  /\ pc'["monitor"] = "cyc_stop"
                  /\ idx'["monitor"] = 1
                  /\ cycle_log' = Append(cycle_log, today)
         ELSE /\ pc'["monitor"] = "health"
              /\ cycle_log' = cycle_log
              /\ last_monthly_restart' = last_monthly_restart]_vars

\* the check called on the first Monday of February after a cycle in
\* January has started the stop pass of a second cycle, and a check called
\* on another day has started nothing
C28_Witness ==
    /\ check_ran
    /\ pc["monitor"] = "cyc_stop"
    /\ DateOf(today).month = 2
    /\ Len(cycle_log) = 2
    /\ DateOf(cycle_log[1]).month = 1

\* C29: the day computed as first_day + ((7 - weekday(first_day)) mod 7)
\* is a Monday, is one of the days 1..7 of the month of first_day, and no
\* earlier day of that month is a Monday; for the month of today
\* (check_monthly_restart) and for the month after it (status), whatever
\* day of the week the month begins on.
C29_IsMonday(n) == n % 7 = 0     \* day 0, 2024-01-01, is a Monday

C29_FirstMondayOf(m, first) ==
    /\ C29_IsMonday(m)
    /\ SameMonth(m, first)
    /\ DateOf(m).day \in 1..7
    /\ \A k \in first..(m - 1) : ~C29_IsMonday(k)

C29_FirstMonday ==
    cal_out # <<>> =>
        /\ DateOf(first_day(today)).day = 1
        /\ SameMonth(first_day(today), today)
        /\ C29_FirstMondayOf(cal_out[1], first_day(today))
        /\ DateOf(first_day_next_month(today)).day = 1
        /\ first_day_next_month(today) =
               first_day(today) + DaysInMonth(DateOf(today).year,
                                              DateOf(today).month)
        /\ C29_FirstMondayOf(cal_out[2], first_day_next_month(today))

\* the months of the days given to the computation begin on every day of
\* the week
C29_AllWeekdays ==
    \A w \in 0..6 : \E n \in 0..MaxCalDay : first_day(n) % 7 = w

\* the computation applied in a month that begins on a Monday (the first
\* Monday of January 2024 is day 1) and is followed by a month that begins
\* on a Thursday (the first Monday of February 2024 is day 5)
C29_Witness ==
    /\ cal_out # <<>>
    /\ C29_AllWeekdays
    /\ DateOf(cal_out[1]).day = 1
    /\ DateOf(cal_out[2]).day = 5
    /\ today > cal_out[1]

\* C30: a service that is not running once the maintenance restart cycle
\* has been completed is given a start_service call by a tick of the
\* monitor loop (until the model's MaxSpawn child processes are used up).
C30_CycleCompleted == cycle_log # <<>> /\ ~C27_InCycle

C30_RecoveryAfterCycle ==
    \A s \in Services :
        (C30_CycleCompleted /\ status[s] # "running") ~>
            (C20_Attempted(s) \/ Started(NumServices) = MaxSpawn)

\* the same for the services that were running before the cycle
C30_RecoveryOfStarted ==
    \A s \in Services :
        (C30_CycleCompleted /\ status[s] # "running" /\ restart_count[s] > 0)
            ~> (C20_Attempted(s) \/ Started(NumServices) = MaxSpawn)

\* the start_service calls of the cycle are made for every service: none
\* is left stopped by a completed cycle
C30_CycleStartsAll ==
    C30_CycleCompleted => \A s \in Services : status[s] # "stopped"

\* C31: a failed write of the status record by the monitor loop changes
\* no field of a service record and takes the loop to the sleep at the end
\* of its iteration, as a successful write does; the loop is left only
\* when running is false, and after a failed write a further tick begins.
C31_WriteFails == ~last_write.failed /\ last_write'.failed

C31_FailedWriteGoesOn ==
    /\ [][C31_WriteFails =>
            /\ \A s \in Services : C24_Record(s)' = C24_Record(s)
            /\ pc'["monitor"] = "top"
            /\ pc'["main"] = pc["main"]
            /\ running' = running]_vars
    /\ [][pc'["monitor"] = "exit" =>
            (pc["monitor"] \in {"top", "exit"} /\ ~running)]_vars
    /\ (last_write.failed /\ pc["monitor"] = "top") ~>
            (pc["monitor"] = "pending" \/ ~running)

\* a tick checks the services after the status write of an earlier tick
\* has failed and left the file without a service
C31_Witness ==
    /\ last_write.failed
    /\ status_file = NoFile
    /\ running
    /\ pc["monitor"] = "health"
    /\ tick_checked = Services
    /\ \E s \in Services : status[s] = "running"

\* C32: a stop_service call kills no process but the one it has sent the
\* graceful signal to and has waited for, and only when that process is
\* still alive at the end of the wait; it enters the wait only for the
\* live process of the record; and when it returns True after the wait
\* that process is not alive.
C32_StopWaitPcs ==
    {"sig_stop_wait", "fin_stop_wait", "cyc_stop_wait", "api_stop_stop_wait",
     "api_restart_stop_wait"}

C32_WaitEnds(t) == pc[t] \in C32_StopWaitPcs /\ pc'[t] # pc[t]

C32_KillAfterGrace ==
    /\ [][\A t \in Threads : \A s \in Services : \A h \in 1..Len(procs[s]) :
            (C32_WaitEnds(t) /\ procs[s][h] = "alive"
                            /\ procs'[s][h] # "alive") =>
                (s = idx[t] /\ h = local_process[t])]_vars
    /\ [][\A s \in Services : \A h \in 1..Len(procs[s]) :
            (procs[s][h] # "killed" /\ procs'[s][h] = "killed") =>
                \E t \in Threads :
                    C32_WaitEnds(t) /\ s = idx[t] /\ h = local_process[t]]_vars
    /\ [][\A t \in Threads :
            (pc'[t] \in C32_StopWaitPcs /\ pc[t] \notin C32_StopWaitPcs) =>
                /\ local_process'[t] = process[idx'[t]]
                /\ procs[idx'[t]][local_process'[t]] = "alive"]_vars
    /\ [][\A t \in Threads :
            (C32_WaitEnds(t) /\ StopEndReturns(t, idx[t])) =>
                /\ procs'[idx[t]][local_process[t]] # "alive"
                /\ status'[idx[t]] = "stopped"
                /\ process'[idx[t]] = None]_vars

\* the same for ServiceManager.stop_service, which the Tk thread runs
C32_GuiKillAfterGrace ==
    [][(gui_pc \in {"stop_wait", "restart_wait"} /\ gui_pc' # gui_pc) =>
          /\ \A s \in GuiServices : \A h \in 1..Len(i_procs[s]) :
                (i_procs[s][h] = "alive" /\ i_procs'[s][h] # "alive") =>
                    (s = gui_idx /\ h = gui_proc)
          /\ i_procs'[gui_idx][gui_proc] # "alive"]_vars

\* the shutdown has ended after it killed the process of a service that
\* was running when the signal arrived
C32_Witness ==
    /\ pc["main"] = "done"
    /\ \E s \in at_shutdown :
          /\ status[s] = "stopped"
          /\ \E h \in 1..Len(procs[s]) : procs[s][h] = "killed"

\* C33: no step decreases the restart_count of a service, whichever
\* operation takes it; a step adds one to it, and no more, exactly when a
\* start_service call for the service comes to the end of its startup wait
\* and the process it has spawned is alive (a call cut short by the signal
\* handler does not come to the end of its wait).
C33_StartWaitPcs ==
    {"start_all_wait", "cyc_start_wait", "restart_wait",
     "api_start_start_wait", "api_restart_start_wait",
     "cli_restart_start_wait"}

C33_StartSurvives(s) ==
    \E t \in Threads :
        /\ pc[t] \in C33_StartWaitPcs
        /\ pc'[t] \notin {pc[t], "sig_stop"}
        /\ idx[t] = s
        /\ procs[s][local_process[t]] = "alive"

C33_RestartCountMonotone ==
    [][\A s \in Services :
         /\ restart_count'[s] >= restart_count[s]
         /\ restart_count'[s] <= restart_count[s] + 1
         /\ restart_count'[s] = restart_count[s] + 1 <=> C33_StartSurvives(s)]_vars

\* restart_service has stopped a running service and started it again:
\* its second start is counted
C33_Witness ==
    /\ ret.op = "restart"
    /\ ret.val = "True"
    /\ ret.stop = "True"
    /\ restart_count[ret.svc] = 2
    /\ status[ret.svc] = "running"

\* C34: the status of every service is one of Stopped, Starting, Running,
\* Stopping, Died, Errored, in the records of both managers and in the
\* status file of the master manager (the master manager writes them in
\* lower case with error for Errored; the integrated manager stores
\* 'Error: <line>' for Errored).
C34_MasterStatuses ==
    /\ \A s \in Services : status[s] \in {"stopped", "running", "died", "error"}
    /\ \A s \in Services :
          status_file[s].status \in {"none", "stopped", "running", "died", "error"}

C34_GuiStatuses ==
    \A s \in GuiServices :
        i_status[s] \in {"Stopped", "Starting", "Running", "Stopping", "Died",
                         "Error"}

C34_SixStatuses ==
    /\ C34_MasterStatuses
    /\ C34_GuiStatuses

\* C35: at every moment every service has at most one live child process,
\* and every live child is referenced by the process handle of its service
\* record (or, during the startup wait of the master manager, by the local
\* variable of the start_service call that will store it), whatever threads
\* call start_service.
C35_MasterChildren ==
    \A s \in Services :
        /\ Cardinality(LiveProcesses(s)) <= 1
        /\ \A p \in LiveProcesses(s) :
              \/ process[s] = p
              \/ \E t \in Threads : idx[t] = s /\ local_process[t] = p

GuiLiveProcesses(s) == {p \in 1..Len(i_procs[s]) : i_procs[s][p] = "alive"}

C35_GuiChildren ==
    \A s \in GuiServices :
        /\ Cardinality(GuiLiveProcesses(s)) <= 1
        /\ \A p \in GuiLiveProcesses(s) : i_process[s] = p

C35_OneReferencedChild ==
    /\ C35_MasterChildren
    /\ C35_GuiChildren

\* the part of C35 on the number of live children alone
C35_MasterAtMostOne ==
    \A s \in Services : Cardinality(LiveProcesses(s)) <= 1

C35_GuiAtMostOne ==
    \A s \in GuiServices : Cardinality(GuiLiveProcesses(s)) <= 1

\* C36: after a stop_service call that found the service running has
\* returned True, with auto_restart enabled, the service stays Stopped with
\* no live process until the user calls start_service or restart_service
\* for it: the auto-restart of the output thread does not start it again.
C36_StoppedStaysStopped ==
    \A s \in GuiServices :
        (user_stopped[s] /\ auto_restart[s]) =>
            /\ i_status[s] = "Stopped"
            /\ GuiLiveProcesses(s) = {}

\* the auto-restart of an output thread spawns no process for a service
\* the user has stopped
C36_NoRestartOfStopped ==
    [][\A s \in GuiServices :
          (/\ out_pc'[s].restart_sleep = out_pc[s].restart_sleep - 1
           /\ Len(i_procs'[s]) = Len(i_procs[s]) + 1)
          => ~user_stopped[s]]_vars

C38_PidImpliesRunning ==
    \A s \in Services : pid[s] # None => status[s] = "running"

C38_PidOnlyWhenRunning ==
    (\A t \in Threads : pc[t] \in {"api", "off", "idle", "top", "done", "exit"})
        => C38_PidImpliesRunning

\* what holds of the pid under any order of calls: it is null with status
\* stopped or died
C38_PidNullWhenStoppedOrDied ==
    \A s \in Services : status[s] \in {"stopped", "died"} => pid[s] = None

\* C39: when an output thread observes the exit of its service's process,
\* it schedules an automatic restart exactly when the exit code is not 0 and
\* the auto_restart flag is true at that moment; a restart is scheduled in
\* no other step, so never for exit code 0; and a scheduled restart is
\* carried out: after its start_service call the service has a live process.
C39_ExitObserved(s) ==
    /\ out_pc'[s].loop = out_pc[s].loop - 1
    /\ i_process[s] # None

C39_Scheduled(s) == out_pc'[s].restart_sleep = out_pc[s].restart_sleep + 1

C39_Restarted(s) == out_pc'[s].restart_sleep = out_pc[s].restart_sleep - 1

C39_NoRestartWitness ==
    \E s \in GuiServices :
        /\ i_status[s] = "Crashed"
        /\ i_process[s] # None
        /\ out_pc[s] = [loop |-> 0, restart_sleep |-> 0]
        /\ ~auto_restart[s]

\* C40: when a fresh manager loads the status file a save_status call has
\* written, every service's auto_restart flag gets the value it had at
\* that save_status call, and the status and the process handle are those
\* of a fresh manager (Stopped, no handle), whatever the file says of them.
C40_SaveLoadRoundTrip ==
    [][(launches' = launches + 1 /\ i_status_file.kind = "json") =>
          /\ auto_restart' = saved_auto_restart
          /\ \A s \in GuiServices :
                /\ i_status'[s] = "Stopped"
                /\ i_process'[s] = None
                /\ output_queue'[s] = FALSE]_vars

\* a fresh manager has loaded a file that shows a service Running with a
\* pid and auto_restart off: the flag is off, the service is Stopped with
\* no handle
C40_Witness ==
    \E s \in GuiServices :
        /\ launches = 2
        /\ i_status_file.kind = "json"
        /\ i_status_file.services[s].status = "Running"
        /\ i_status_file.services[s].pid # None
        /\ i_status_file.services[s].auto_restart = "false"
        /\ ~auto_restart[s]
        /\ ~saved_auto_restart[s]
        /\ i_status[s] = "Stopped"
        /\ i_process[s] = None

TypeOK ==
    /\ status \in [Services -> {"stopped", "running", "died", "error"}]
    /\ process \in [Services -> 0..MaxSpawn]
    /\ pid \in [Services -> 0..MaxSpawn]
    /\ running \in BOOLEAN
    /\ pid_file \in BOOLEAN
    /\ rechecked \in BOOLEAN
    /\ check_ran \in BOOLEAN
    /\ last_health_check \in [Services -> {Never, Checked}]
    /\ command \in {"none", "start", "stop", "restart"}
    /\ i_status \in [GuiServices -> {"Stopped", "Starting", "Running",
                         "Stopping", "Error", "Crashed", "Failed"}]
    /\ i_process \in [GuiServices -> 0..MaxGuiSpawn]
    /\ output_queue \in [GuiServices -> BOOLEAN]
    /\ auto_restart \in [GuiServices -> BOOLEAN]
    /\ gui_proc \in 0..MaxGuiSpawn
    /\ user_stopped \in [GuiServices -> BOOLEAN]
    /\ i_status_file.kind \in {"absent", "broken", "json"}
    /\ saved_auto_restart \in [GuiServices -> BOOLEAN]
    /\ launches \in 1..MaxLaunch
====
